---- MODULE Spec2Model ----
(***************************************************************************)
(* Model of the Qblox backend of quantify-scheduler: the compiler          *)
(* container, one module compiler (baseband or RF) with its sequencers,    *)
(* and the generation of the Q1ASM program of every sequencer.             *)
(*                                                                         *)
(* Times are integers counted in ticks, TicksPerNs ticks to a nanosecond,  *)
(* so that a float timing such as 4.2e-9 s and its rounding to the         *)
(* nanosecond are different values.  Frequencies are records, so that      *)
(* None and NaN are values different from every number.                    *)
(***************************************************************************)
EXTENDS Integers, Sequences, FiniteSets, TLC

(* ----------------------------- bounds ---------------------------------- *)

\* ticks per nanosecond: the resolution of the float timings of the model
TicksPerNs == 5
\* operations assigned to the module are at most MaxOps
MaxOps == 2
\* timings of operations lie on or just after the grid points 0..MaxGrid
MaxGrid == 2
\* repetitions of the schedule are 1..MaxReps
MaxReps == 2
\* CompilerContainer.compile is called at most MaxCalls times
MaxCalls == 2
\* the setters of the frequencies are called at most MaxDirect times
MaxDirect == 2

\* ScheduleGettable.get is called at most MaxGets times
MaxGets == 4
\* at most MaxClockOps pulses are queued for the None port and a clock
MaxClockOps == 1
\* the parameter of the schedule kwargs has a value in 0..MaxParam
MaxParam == 1
\* acquisition indices are 0..MaxIdx
MaxIdx == 2
\* repetitions of a schedule of acquisitions are 1..MaxAcqReps
MaxAcqReps == 3
\* the num_times of a looped periodic acquisition
NumTimes == 5
\* attenuations are multiples of 1/AttPerDb dB
AttPerDb == 2

(* --------------------------- constants --------------------------------- *)

GRID_TIME == 4
NCO_SET_PH_DELTA_WAIT == 8
NCO_SET_FREQ_WAIT == 8
MAX_SAMPLE_SIZE_WAVEFORMS == 16384
MAX_NUMBER_OF_BINS == 131072

(* ------------------------- general helpers ----------------------------- *)

Range(s) == {s[i] : i \in 1..Len(s)}

Max(S) == CHOOSE x \in S : \A y \in S : y <= x

Min(S) == CHOOSE x \in S : \A y \in S : x <= y

\* the value v bound to the parameter of F: a local name for a value
With(v, F(_)) == F(v)

Ns(n) == n * TicksPerNs

\* round(timing, ndigits=9): the timing rounded to a whole nanosecond, in ticks
RoundNs(t) == ((2 * t + TicksPerNs) \div (2 * TicksPerNs)) * TicksPerNs

\* int(round(time * 1e9)): the timing as a whole number of nanoseconds
RoundToNsInt(t) == (2 * t + TicksPerNs) \div (2 * TicksPerNs)

\* helpers.to_grid_time: the time in ns, an error off the grid
to_grid_time(t) ==
    LET time_ns == RoundToNsInt(t)
    IN  IF time_ns % GRID_TIME # 0
        THEN [err |-> "ValueError", ns |-> time_ns]
        ELSE [err |-> "none", ns |-> time_ns]

\* helpers.is_within_half_grid_time: |a - b| is at most half a grid time
is_within_half_grid_time(a, b) ==
    LET d == IF a >= b THEN a - b ELSE b - a
    IN  2 * d <= Ns(GRID_TIME)

(* ---------------------------- frequencies ------------------------------- *)

\* a frequency is None, NaN or a number
NoneFreq == [k |-> "None", v |-> 0]

NaNFreq == [k |-> "NaN", v |-> 0]

Num(x) == [k |-> "num", v |-> x]

\* math.isclose on two frequencies that are not None: the numbers of the
\* model are small integers, which are close only when equal; NaN is close
\* to nothing
isclose(a, b) == a.k = "num" /\ b.k = "num" /\ a.v = b.v

(* ------------------------------ OpInfo ---------------------------------- *)

\* bin modes and acquisition protocols
BinModes == {"average", "append"}

Protocols == {"SSBIntegrationComplex", "Trace", "TriggerCount",
              "looped_periodic_acquisition"}

\* waveforms a play can use, and the number of samples of each
Waveforms == {"w_short", "w_full"}

WfLen(w) == IF w = "w_full" THEN MAX_SAMPLE_SIZE_WAVEFORMS ELSE GRID_TIME

\* OpInfo: one scheduled event; kind stands for the payload of its data dict
OpInfo(kind, timing, wf, ch, idx, bm, prot) ==
    [kind |-> kind, timing |-> timing, duration |-> Ns(GRID_TIME), wf |-> wf,
     acq_channel |-> ch, acq_index |-> idx, bin_mode |-> bm, protocol |-> prot,
     num_times |-> NumTimes,
     clock_freq_new |-> NoneFreq, clock_freq_old |-> NoneFreq,
     interm_freq_old |-> NoneFreq]

PulseOp(kind, timing, wf) == OpInfo(kind, timing, wf, 0, 0, "none", "none")

AcqOp(timing, ch, idx, bm, prot) == OpInfo("acquire", timing, "none", ch, idx, bm, prot)

\* OpInfo.is_acquisition
is_acquisition(op) == op.kind = "acquire"

\* OpInfo.is_parameter_update
is_parameter_update(op) == op.kind = "upd_param"

\* OpInfo.is_offset_instruction
is_offset_instruction(op) == op.kind = "offset"

\* data.get("wf_func") is not None
has_wf_func(op) == op.kind = "play"

\* OpInfo.is_real_time_io_operation
is_real_time_io_operation(op) ==
    is_acquisition(op) \/ is_parameter_update(op) \/ has_wf_func(op)

(* --------------------------- RegisterManager ---------------------------- *)

\* RegisterManager.allocate_register: the lowest register that is free
allocate_register(used) == Min({r \in 0..(Cardinality(used)) : r \notin used})

(* ----------------------------- QASMProgram ------------------------------ *)

Instr(name, a, b, op) == [instr |-> name, a |-> a, b |-> b, op |-> op]

\* QASMProgram(...): an empty program over the sequencer's register manager
NewQasm(registers) ==
    [instructions |-> <<>>, elapsed_time |-> 0, err |-> "none", warned |-> {},
     registers |-> registers, last_end_acq |-> 0, last_end_pulse |-> 0,
     inserted |-> <<>>]

\* QASMProgram.emit
emit(q, name, a, b, op) ==
    [q EXCEPT !.instructions = Append(@, Instr(name, a, b, op))]

\* QASMProgram.auto_wait
auto_wait(q, wait_time, count_as_elapsed_time) ==
    IF wait_time = 0 THEN q
    ELSE IF wait_time < 0 THEN [q EXCEPT !.err = "ValueError"]
    ELSE LET q1 == emit(q, "wait", wait_time, 0, 0)
         IN  IF count_as_elapsed_time
             THEN [q1 EXCEPT !.elapsed_time = @ + wait_time]
             ELSE q1

\* QASMProgram.wait_till_start_operation
wait_till_start_operation(q, op) ==
    LET start_time == to_grid_time(op.timing)
        wait_time == start_time.ns - q.elapsed_time
    IN  IF start_time.err # "none" THEN [q EXCEPT !.err = start_time.err]
        ELSE IF wait_time > 0 THEN auto_wait(q, wait_time, TRUE)
        ELSE IF wait_time < 0 THEN [q EXCEPT !.err = "ValueError"]
        ELSE q

(* -------------------------- operation strategies ------------------------ *)

\* the register (append mode) or the bin index (average mode) of an acquire
BinIdx(op, channel_to_reg) ==
    IF op.bin_mode = "append" THEN channel_to_reg[op.acq_channel] ELSE op.acq_index

\* GenericPulseStrategy.insert_qasm: play the waveform for one grid time
PulseInsertQasm(q, op, id) ==
    LET q1 == emit(emit(q, "set_awg_gain", 0, 0, id), "play", 0, GRID_TIME, id)
    IN  [q1 EXCEPT !.elapsed_time = @ + GRID_TIME]

\* acquisition strategies' insert_qasm: acquire into the bin, one grid time
AcqInsertQasm(q, op, id, channel_to_reg) ==
    LET q1 == emit(q, "acquire", op.acq_channel, BinIdx(op, channel_to_reg), id)
        q2 == [q1 EXCEPT !.elapsed_time = @ + GRID_TIME]
    IN  IF op.bin_mode = "append"
        THEN emit(q2, "add", channel_to_reg[op.acq_channel], 1, id)
        ELSE q2

\* NcoPhaseShiftStrategy.insert_qasm (the phase shift of the model is not 0)
NcoPhaseShiftInsertQasm(q, op, id) ==
    LET q1 == emit(emit(q, "set_ph_delta", 0, 0, id),
                   "upd_param", NCO_SET_PH_DELTA_WAIT, 0, id)
    IN  [q1 EXCEPT !.elapsed_time = @ + NCO_SET_PH_DELTA_WAIT]

\* NcoSetClockFrequencyStrategy.insert_qasm: RuntimeError when the old clock
\* frequency is None or NaN or the old intermediate frequency is None; the
\* argument of set_freq stands for get_nco_set_frequency_arguments of the new
\* intermediate frequency
NcoSetClockFrequencyInsertQasm(q, op, id) ==
    IF op.clock_freq_old.k \in {"None", "NaN"} THEN [q EXCEPT !.err = "RuntimeError"]
    ELSE IF op.interm_freq_old.k = "None" THEN [q EXCEPT !.err = "RuntimeError"]
    ELSE LET iterm_freq_new ==
                 op.interm_freq_old.v + op.clock_freq_new.v - op.clock_freq_old.v
             q1 == emit(emit(q, "set_freq", iterm_freq_new, 0, id),
                        "upd_param", NCO_SET_FREQ_WAIT, 0, id)
         IN  [q1 EXCEPT !.elapsed_time = @ + NCO_SET_FREQ_WAIT]

\* AwgOffsetStrategy.insert_qasm: set_awg_offs alone, no time passes
AwgOffsetInsertQasm(q, op, id) == emit(q, "set_awg_offs", 0, 0, id)

\* UpdateParameterStrategy.insert_qasm
UpdateParameterInsertQasm(q, op, id) ==
    LET q1 == emit(q, "upd_param", GRID_TIME, 0, id)
    IN  [q1 EXCEPT !.elapsed_time = @ + GRID_TIME]

\* operation.insert_qasm(qasm), by the strategy of the operation; the call
\* is noted in `inserted` with the elapsed time at which it is made
insert_qasm(q, op, id, channel_to_reg) ==
    With([q EXCEPT !.inserted = Append(@, [op |-> id, elapsed_time |-> q.elapsed_time])],
         LAMBDA q0 :
    CASE op.kind = "play" -> PulseInsertQasm(q0, op, id)
      [] op.kind = "acquire" -> AcqInsertQasm(q0, op, id, channel_to_reg)
      [] op.kind = "phase_shift" -> NcoPhaseShiftInsertQasm(q0, op, id)
      [] op.kind = "set_freq" -> NcoSetClockFrequencyInsertQasm(q0, op, id)
      [] op.kind = "offset" -> AwgOffsetInsertQasm(q0, op, id)
      [] op.kind = "upd_param" -> UpdateParameterInsertQasm(q0, op, id)
      [] OTHER -> q0)

(* ------------------------------ Sequencer ------------------------------- *)

\* Sequencer(...): a sequencer without data, as _construct_sequencers makes it
Sequencer(index, portclock, io_cfg, seq_cfg, instrument_type) ==
    [index |-> index, portclock |-> portclock,
     pulses |-> <<>>, acquisitions |-> <<>>,
     associated_ext_lo |-> io_cfg.lo_name, mix_lo |-> io_cfg.mix_lo,
     marker_debug_mode_enable |-> io_cfg.marker_debug_mode_enable,
     default_marker |-> 0, instrument_type |-> instrument_type,
     modulation_freq |-> seq_cfg.interm_freq,
     nco_en |-> (seq_cfg.interm_freq.k = "num" /\ seq_cfg.interm_freq.v # 0),
     latency_correction |-> 0, registers |-> {}]

\* Sequencer.name
sequencer_name(seq) == <<"seq", seq.index>>

\* Sequencer.has_data
has_data(seq) == Len(seq.acquisitions) > 0 \/ Len(seq.pulses) > 0

\* Sequencer._decide_markers, for a sequencer connected to outputs 0 and 1
decide_markers(seq, op) ==
    CASE seq.instrument_type = "QCM" -> 3
      [] seq.instrument_type = "QRM" -> IF is_acquisition(op) THEN 12 ELSE 3
      [] seq.instrument_type = "QCM_RF" -> 12
      [] seq.instrument_type = "QRM_RF" -> IF is_acquisition(op) THEN 11 ELSE 7
      [] OTHER -> 0

\* Sequencer._get_latency_correction_ns
get_latency_correction_ns(latency_correction) ==
    IF latency_correction = 0 THEN 0 ELSE RoundToNsInt(latency_correction)

RECURSIVE initialize_append_mode_registers_per_acquisition(_, _, _, _)
initialize_append_mode_registers_per_acquisition(q, channel_to_reg, acquisitions, i) ==
    IF i > Len(acquisitions) THEN [q |-> q, channel_to_reg |-> channel_to_reg]
    ELSE LET acq == acquisitions[i]
         IN  IF acq.bin_mode # "append"
             THEN initialize_append_mode_registers_per_acquisition(
                      q, channel_to_reg, acquisitions, i + 1)
             ELSE LET reg == allocate_register(q.registers)
                      q1 == emit([q EXCEPT !.registers = @ \cup {reg}], "move", 0, reg, 0)
                  IN  initialize_append_mode_registers_per_acquisition(
                          q1, (acq.acq_channel :> reg) @@ channel_to_reg,
                          acquisitions, i + 1)

\* Sequencer._initialize_append_mode_registers: one register for every
\* channel with an append-mode acquisition, set to 0 in the header
RECURSIVE initialize_append_mode_registers(_, _, _, _)
initialize_append_mode_registers(q, channel_to_reg, acquisitions, i) ==
    IF i > Len(acquisitions) THEN [q |-> q, channel_to_reg |-> channel_to_reg]
    ELSE LET acq == acquisitions[i]
         IN  IF acq.bin_mode # "append" \/ acq.acq_channel \in DOMAIN channel_to_reg
             THEN initialize_append_mode_registers(q, channel_to_reg, acquisitions, i + 1)
             ELSE LET reg == allocate_register(q.registers)
                      q1 == emit([q EXCEPT !.registers = @ \cup {reg}], "move", 0, reg, 0)
                  IN  initialize_append_mode_registers(
                          q1, channel_to_reg @@ (acq.acq_channel :> reg),
                          acquisitions, i + 1)

\* the key of the sort in generate_qasm_program, as a strict order:
\* (round(timing, ndigits=9), is_real_time_io_operation)
op_sort_key_less_unrounded(a, b) ==
    \/ a.timing < b.timing
    \/ a.timing = b.timing
       /\ ~is_real_time_io_operation(a) /\ is_real_time_io_operation(b)

op_sort_key_less(a, b) ==
    \/ RoundNs(a.timing) < RoundNs(b.timing)
    \/ /\ RoundNs(a.timing) = RoundNs(b.timing)
       /\ ~is_real_time_io_operation(a) /\ is_real_time_io_operation(b)

\* sorted(): an insertion of x into the sorted s that keeps equal keys in order
RECURSIVE InsertSorted(_, _, _)
InsertSorted(ops, s, x) ==
    IF s = <<>> THEN <<x>>
    ELSE IF op_sort_key_less(ops[x], ops[Head(s)]) THEN <<x>> \o s
    ELSE <<Head(s)>> \o InsertSorted(ops, Tail(s), x)

\* sorted(op_list, key=...): the positions 1..n of op_list, sorted
RECURSIVE SortedOps(_, _)
SortedOps(ops, n) ==
    IF n = 0 THEN <<>> ELSE InsertSorted(ops, SortedOps(ops, n - 1), n)

process_operation_without_warning(q, op, id, seq, channel_to_reg) ==
    LET q0 == IF ~is_real_time_io_operation(op) THEN q
              ELSE IF is_acquisition(op)
              THEN [q EXCEPT !.last_end_acq = op.timing + op.duration]
              ELSE [q EXCEPT !.last_end_pulse = op.timing + op.duration]
        q1 == wait_till_start_operation(q0, op)
    IN  IF q1.err # "none" THEN q1
        ELSE IF seq.marker_debug_mode_enable
        THEN IF is_acquisition(op) \/ has_wf_func(op)
             THEN LET a == emit(q1, "set_mrk", decide_markers(seq, op), 0, id)
                      b == insert_qasm(a, op, id, channel_to_reg)
                      c == emit(b, "set_mrk", seq.default_marker, 0, id)
                      d == emit(c, "upd_param", GRID_TIME, 0, id)
                  IN  [d EXCEPT !.elapsed_time = @ + GRID_TIME]
             ELSE q1
        ELSE insert_qasm(q1, op, id, channel_to_reg)

process_operation_without_wait(q, op, id, seq, channel_to_reg) ==
    insert_qasm(q, op, id, channel_to_reg)

\* one turn of the while loop of generate_qasm_program, for operation id
process_operation(q, op, id, seq, channel_to_reg) ==
    LET last_end == IF is_acquisition(op) THEN q.last_end_acq ELSE q.last_end_pulse
        qw == IF op.timing < last_end THEN [q EXCEPT !.warned = @ \cup {id}] ELSE q
        q0 == IF ~is_real_time_io_operation(op) THEN q
              ELSE IF is_acquisition(op)
              THEN [qw EXCEPT !.last_end_acq = op.timing + op.duration]
              ELSE [qw EXCEPT !.last_end_pulse = op.timing + op.duration]
        q1 == wait_till_start_operation(q0, op)
    IN  IF q1.err # "none" THEN q1
        ELSE IF seq.marker_debug_mode_enable
        THEN IF is_acquisition(op) \/ has_wf_func(op)
             THEN LET a == emit(q1, "set_mrk", decide_markers(seq, op), 0, id)
                      b == insert_qasm(a, op, id, channel_to_reg)
                      c == emit(b, "set_mrk", seq.default_marker, 0, id)
                      d == emit(c, "upd_param", GRID_TIME, 0, id)
                  IN  [d EXCEPT !.elapsed_time = @ + GRID_TIME]
             ELSE q1
        ELSE insert_qasm(q1, op, id, channel_to_reg)

\* the while loop of generate_qasm_program over the queue of operation ids
RECURSIVE run_op_queue(_, _, _, _, _)
run_op_queue(q, ops, op_queue, seq, channel_to_reg) ==
    IF op_queue = <<>> \/ q.err # "none" THEN q
    ELSE run_op_queue(
             process_operation(q, ops[Head(op_queue)], Head(op_queue), seq, channel_to_reg),
             ops, Tail(op_queue), seq, channel_to_reg)

\* the end of the loop body in generate_qasm_program: the wait that fills the
\* loop up to the end time, a RuntimeError when that wait is negative
final_wait_unpadded(body, end_time) ==
    IF body.err # "none" THEN body
    ELSE IF end_time.err # "none" THEN [body EXCEPT !.err = end_time.err]
    ELSE IF end_time.ns - body.elapsed_time < 0 THEN [body EXCEPT !.err = "RuntimeError"]
    ELSE body

final_wait_unchecked(body, end_time) ==
    IF body.err # "none" THEN body
    ELSE IF end_time.err # "none" THEN [body EXCEPT !.err = end_time.err]
    ELSE auto_wait(body, end_time.ns - body.elapsed_time, TRUE)

final_wait(body, end_time) ==
    IF body.err # "none" THEN body
    ELSE IF end_time.err # "none" THEN [body EXCEPT !.err = end_time.err]
    ELSE IF end_time.ns - body.elapsed_time < 0 THEN [body EXCEPT !.err = "RuntimeError"]
    ELSE auto_wait(body, end_time.ns - body.elapsed_time, TRUE)

\* Sequencer.generate_qasm_program
generate_qasm_program(seq, total_sequence_time, repetitions) ==
    LET ops == seq.pulses \o seq.acquisitions
        hdr == emit(emit(emit(NewQasm(seq.registers),
                              "set_mrk", seq.default_marker, 0, 0),
                         "wait_sync", GRID_TIME, 0, 0),
                    "upd_param", GRID_TIME, 0, 0)
        end_time == to_grid_time(total_sequence_time)
    IN
    With(initialize_append_mode_registers(hdr, <<>>, seq.acquisitions, 1), LAMBDA ini :
    With(SortedOps(ops, Len(ops)), LAMBDA op_list :
    With(auto_wait(ini.q,
                   GRID_TIME + get_latency_correction_ns(seq.latency_correction),
                   FALSE), LAMBDA lat :
    With(allocate_register(lat.registers), LAMBDA loop_reg :
    With(run_op_queue(
             emit(emit(emit(emit([lat EXCEPT !.registers = @ \cup {loop_reg}],
                                 "move", repetitions, loop_reg, 0),
                            "label_start", 0, 0, 0),
                       "reset_ph", 0, 0, 0),
                  "upd_param", GRID_TIME, 0, 0),
             ops, op_list, seq, ini.channel_to_reg), LAMBDA body :
    With(final_wait(body, end_time), LAMBDA padded :
    With([emit(padded, "loop", loop_reg, 0, 0) EXCEPT !.registers = @ \ {loop_reg}],
         LAMBDA closed :
    With(IF closed.err # "none" THEN closed ELSE emit(closed, "stop", 0, 0, 0),
         LAMBDA done :
        [err |-> done.err, program |-> done.instructions,
         elapsed_time |-> done.elapsed_time, op_list |-> op_list,
         end_time |-> end_time.ns,
         wait_time |-> end_time.ns - body.elapsed_time,
         drained |-> (body.err = "none"),
         warned |-> done.warned, registers |-> done.registers,
         inserted |-> done.inserted]))))))))

\* Sequencer.frequency (setter): the sequencer after the assignment, and the
\* exception raised in its place
set_frequency_overwrite(seq, freq) ==
    [seq |-> [seq EXCEPT !.modulation_freq = freq, !.nco_en = (freq.k # "None")],
     err |-> "none"]

set_frequency(seq, freq) ==
    IF seq.modulation_freq.k = "num" /\ freq.k = "None"
    THEN [seq |-> seq, err |-> "TypeError"]
    ELSE IF seq.modulation_freq.k = "num" /\ ~isclose(seq.modulation_freq, freq)
    THEN [seq |-> seq, err |-> "ValueError"]
    ELSE [seq |-> [seq EXCEPT !.modulation_freq = freq,
                              !.nco_en = (freq.k # "None")],
          err |-> "none"]

\* the waveforms in the wf_dict that the pulses' generate_data fill
awg_dict(seq) == {seq.pulses[i].wf : i \in {j \in 1..Len(seq.pulses) : seq.pulses[j].kind = "play"}}

\* the sum of len(waveform["data"]) over the wf_dict
RECURSIVE total_size(_)
total_size(wf_dict) ==
    IF wf_dict = {} THEN 0
    ELSE LET w == CHOOSE x \in wf_dict : TRUE
         IN  WfLen(w) + total_size(wf_dict \ {w})

\* Sequencer._validate_awg_dict: the exception it raises
validate_awg_dict_unchecked(wf_dict) == "none"

validate_awg_dict(wf_dict) ==
    IF total_size(wf_dict) > MAX_SAMPLE_SIZE_WAVEFORMS THEN "RuntimeError" ELSE "none"

(* ----------------------- acquisition declarations ----------------------- *)

\* the keys of acq_metadata.acq_indices, in the order of their insertion
acq_channels(acquisitions) ==
    LET F[i \in 0..Len(acquisitions)] ==
            IF i = 0 THEN <<>>
            ELSE IF acquisitions[i].acq_channel \in Range(F[i - 1]) THEN F[i - 1]
            ELSE Append(F[i - 1], acquisitions[i].acq_channel)
    IN  F[Len(acquisitions)]

\* acq_metadata.acq_indices[channel]: the indices of the channel, in order
acq_indices_of(acquisitions, channel) ==
    LET F[i \in 0..Len(acquisitions)] ==
            IF i = 0 THEN <<>>
            ELSE IF acquisitions[i].acq_channel = channel
            THEN Append(F[i - 1], acquisitions[i].acq_index)
            ELSE F[i - 1]
    IN  F[Len(acquisitions)]

\* helpers.extract_acquisition_metadata_from_acquisitions: protocol and bin
\* mode of the first acquisition, an error when another one differs
extract_acquisition_metadata(acquisitions) ==
    [err |-> IF \E i \in 1..Len(acquisitions) :
                    \/ acquisitions[i].protocol # acquisitions[1].protocol
                    \/ acquisitions[i].bin_mode # acquisitions[1].bin_mode
             THEN "RuntimeError" ELSE "none",
     acq_protocol |-> acquisitions[1].protocol,
     bin_mode |-> acquisitions[1].bin_mode,
     channels |-> acq_channels(acquisitions)]

\* the sanity checks of _generate_acq_declaration_dict on one channel's
\* indices: which of the three checks raises, "none" when none does
acq_indices_error_no_length_check(acq_indices) ==
    IF Min(Range(acq_indices)) # 0 THEN "lowest"
    ELSE IF Len(acq_indices) # Cardinality(Range(acq_indices)) THEN "unique"
    ELSE "none"

acq_indices_error(acq_indices) ==
    IF Min(Range(acq_indices)) # 0 THEN "lowest"
    ELSE IF Len(acq_indices) # Max(Range(acq_indices)) + 1 THEN "highest"
    ELSE IF Len(acq_indices) # Cardinality(Range(acq_indices)) THEN "unique"
    ELSE "none"

\* the num_bins of one channel in _generate_acq_declaration_dict
num_bins_not_repeated(acq_metadata, acq_indices, repetitions, acquisitions) ==
    IF acq_metadata.acq_protocol = "looped_periodic_acquisition"
    THEN acquisitions[1].num_times
    ELSE IF acq_metadata.acq_protocol = "TriggerCount" /\ acq_metadata.bin_mode = "average"
    THEN MAX_NUMBER_OF_BINS
    ELSE Max(Range(acq_indices)) + 1

num_bins_of(acq_metadata, acq_indices, repetitions, acquisitions) ==
    IF acq_metadata.acq_protocol = "looped_periodic_acquisition"
    THEN acquisitions[1].num_times
    ELSE IF acq_metadata.bin_mode = "append"
    THEN repetitions * (Max(Range(acq_indices)) + 1)
    ELSE IF acq_metadata.acq_protocol = "TriggerCount"
    THEN MAX_NUMBER_OF_BINS
    ELSE Max(Range(acq_indices)) + 1

\* Sequencer._generate_acq_declaration_dict: the channels in order, the first
\* failing check raises; channel is the channel named by the error message
\* (-1 when the message names none)
generate_acq_declaration_dict(acquisitions, repetitions) ==
    With(extract_acquisition_metadata(acquisitions), LAMBDA acq_metadata :
        LET chans == acq_metadata.channels
            D[i \in 0..Len(chans)] ==
                IF i = 0 THEN [err |-> "none", check |-> "none", channel |-> -1,
                               decl |-> <<>>]
                ELSE IF D[i - 1].err # "none" THEN D[i - 1]
                ELSE With(acq_indices_of(acquisitions, chans[i]), LAMBDA acq_indices :
                     With(acq_indices_error(acq_indices), LAMBDA check :
                         IF check # "none"
                         THEN [D[i - 1] EXCEPT !.err = "ValueError", !.check = check,
                                               !.channel = chans[i]]
                         ELSE IF /\ acq_metadata.acq_protocol = "looped_periodic_acquisition"
                                 /\ Len(acquisitions) > 1
                         THEN [D[i - 1] EXCEPT !.err = "ValueError", !.check = "looped"]
                         ELSE [D[i - 1] EXCEPT !.decl = @ @@
                                  (chans[i] :> num_bins_of(acq_metadata, acq_indices,
                                                           repetitions, acquisitions))]))
        IN  IF acq_metadata.err # "none"
            THEN [err |-> acq_metadata.err, check |-> "metadata", channel |-> -1,
                  decl |-> <<>>]
            ELSE D[Len(chans)])

(* --------------------------- Sequencer.compile -------------------------- *)

\* Sequencer.compile: status "None" without data, "raise" with the exception
\* in err, else "ok" with the sequencer settings dict in out; seq is the
\* sequencer afterwards and qasm the run of generate_qasm_program
NoQasm ==
    [err |-> "none", program |-> <<>>, elapsed_time |-> 0, op_list |-> <<>>,
     end_time |-> 0, wait_time |-> 0, drained |-> FALSE, warned |-> {},
     registers |-> {}, inserted |-> <<>>]

NoOut ==
    [program |-> <<>>, waveforms |-> {}, acquisitions |-> <<>>,
     modulation_freq |-> NoneFreq, nco_en |-> FALSE]

\* Sequencer.compile that does not test has_data
sequencer_compile_without_data(seq, supports_acquisition, total_play_time, repetitions) ==
    LET awg == awg_dict(seq)
        with_acq == supports_acquisition /\ Len(seq.acquisitions) > 0
        raised(e, sq, qa, ad) ==
            [status |-> "raise", err |-> e, seq |-> sq, out |-> NoOut,
             qasm |-> qa, acq_decl |-> ad]
    IN
    With(validate_awg_dict(awg), LAMBDA awg_err :
    With(IF with_acq
         THEN generate_acq_declaration_dict(seq.acquisitions, repetitions)
         ELSE [err |-> "none", check |-> "none", channel |-> -1, decl |-> <<>>],
         LAMBDA acq_decl :
        IF awg_err # "none" THEN raised(awg_err, seq, NoQasm, acq_decl)
        ELSE IF acq_decl.err # "none" THEN raised(acq_decl.err, seq, NoQasm, acq_decl)
        ELSE With(generate_qasm_program(seq, total_play_time, repetitions), LAMBDA qasm :
            IF qasm.err # "none"
            THEN raised(qasm.err, [seq EXCEPT !.registers = qasm.registers], qasm,
                        acq_decl)
            ELSE [status |-> "ok", err |-> "none",
                  seq |-> [seq EXCEPT !.registers = qasm.registers],
                  out |-> [program |-> qasm.program, waveforms |-> awg,
                           acquisitions |-> acq_decl.decl,
                           modulation_freq |-> seq.modulation_freq,
                           nco_en |-> seq.nco_en],
                  qasm |-> qasm, acq_decl |-> acq_decl])))

\* Sequencer.compile
sequencer_compile(seq, supports_acquisition, total_play_time, repetitions) ==
    LET awg == awg_dict(seq)
        with_acq == supports_acquisition /\ Len(seq.acquisitions) > 0
        raised(e, sq, qa, ad) ==
            [status |-> "raise", err |-> e, seq |-> sq, out |-> NoOut,
             qasm |-> qa, acq_decl |-> ad]
    IN
    With(validate_awg_dict(awg), LAMBDA awg_err :
    With(IF with_acq
         THEN generate_acq_declaration_dict(seq.acquisitions, repetitions)
         ELSE [err |-> "none", check |-> "none", channel |-> -1, decl |-> <<>>],
         LAMBDA acq_decl :
        IF ~has_data(seq)
        THEN [status |-> "None", err |-> "none", seq |-> seq, out |-> NoOut,
              qasm |-> NoQasm, acq_decl |-> acq_decl]
        ELSE IF awg_err # "none" THEN raised(awg_err, seq, NoQasm, acq_decl)
        ELSE IF acq_decl.err # "none" THEN raised(acq_decl.err, seq, NoQasm, acq_decl)
        ELSE With(generate_qasm_program(seq, total_play_time, repetitions), LAMBDA qasm :
            IF qasm.err # "none"
            THEN raised(qasm.err, [seq EXCEPT !.registers = qasm.registers], qasm,
                        acq_decl)
            ELSE [status |-> "ok", err |-> "none",
                  seq |-> [seq EXCEPT !.registers = qasm.registers],
                  out |-> [program |-> qasm.program, waveforms |-> awg,
                           acquisitions |-> acq_decl.decl,
                           modulation_freq |-> seq.modulation_freq,
                           nco_en |-> seq.nco_en],
                  qasm |-> qasm, acq_decl |-> acq_decl])))

(* ------------------------------ the module ------------------------------ *)

\* the port-clock combinations of the hardware configs: one more than a
\* module has sequencers
PortClockOrder == <<"pc0", "pc1", "pc2", "pc3", "pc4", "pc5", "pc6">>

PortClocks == {"pc0", "pc1", "pc2", "pc3", "pc4", "pc5", "pc6"}

\* the clock of a port-clock combination
ClockOf(portclock) == IF portclock = "pc0" THEN "c0" ELSE "c1"

Clocks == {"c0", "c1"}

RFTypes == {"QCM_RF", "QRM_RF"}

\* QbloxBaseModule.supports_acquisition of the module types
supports_acquisition(instrument_type) == instrument_type \in {"QRM", "QRM_RF"}

\* the settings of a module before prepare(): None
NoSettings == [lo0_freq |-> NoneFreq]

\* QbloxBaseModule(...): the compiler of a module, as CompilerContainer
\* ._add_from_type constructs it
NewModule(cfg, total_play_time) ==
    [cfg |-> cfg, total_play_time |-> total_play_time,
     pulses |-> [pc \in PortClocks |-> <<>>],
     clock_pulses |-> [clock \in Clocks |-> <<>>],
     acquisitions |-> [pc \in PortClocks |-> <<>>],
     settings |-> NoSettings, sequencers |-> <<>>]

\* ControlDeviceCompiler._portclocks_with_data
portclocks_with_data(mod) ==
    {pc \in PortClocks : mod.pulses[pc] # <<>> \/ mod.acquisitions[pc] # <<>>}

\* QbloxBaseModule.compile: the sequencers are compiled in order, the first
\* exception ends the call; program.sequencers has the sequencers with a
\* program, runs the run of every sequencer compiled; is_none is the test
\* len(program) == 0 on the dictionary that has the key "sequencers" by then
module_compile(mod, repetitions) ==
    LET n == Len(mod.sequencers)
        C[i \in 0..n] ==
            IF i = 0 THEN [err |-> "none", sequencers |-> mod.sequencers,
                           programs |-> <<>>, runs |-> <<>>]
            ELSE IF C[i - 1].err # "none" THEN C[i - 1]
            ELSE With(sequencer_compile(
                          mod.sequencers[i],
                          supports_acquisition(mod.cfg.instrument_type),
                          mod.total_play_time, repetitions), LAMBDA r :
                     [err |-> r.err,
                      sequencers |-> [C[i - 1].sequencers EXCEPT ![i] = r.seq],
                      programs |-> IF r.status = "ok"
                                   THEN C[i - 1].programs @@ (mod.sequencers[i].index :> r.out)
                                   ELSE C[i - 1].programs,
                      runs |-> Append(C[i - 1].runs,
                                      [r.qasm EXCEPT !.err = r.err]
                                          @@ [acq |-> r.acq_decl])])
    IN  With(C[n], LAMBDA done :
            [mod |-> [mod EXCEPT !.sequencers = done.sequencers],
             err |-> done.err,
             runs |-> done.runs,
             is_none |-> Cardinality({"sequencers"}) = 0,
             program |-> [sequencers |-> done.programs, settings |-> mod.settings,
                          repetitions |-> repetitions]])

(* --------------------------- prepare(): steps --------------------------- *)

\* StaticHardwareProperties.max_sequencers
NUMBER_OF_SEQUENCERS == 6

\* StaticHardwareProperties.valid_ios of the module types of the model
ValidIos == {"complex_output_0", "complex_output_1", "complex_input_0"}

\* settings_type.extract_settings_from_mapping: the LO frequency of an RF
\* module is the lo_freq of complex_output_0
extract_settings_from_mapping(cfg) ==
    LET out0 == {i \in 1..Len(cfg.ios) : cfg.ios[i].io_name = "complex_output_0"}
    IN  IF cfg.instrument_type \in RFTypes
        THEN [lo0_freq |-> IF out0 # {} THEN cfg.ios[Min(out0)].lo_freq ELSE NoneFreq,
              in0_att |-> [k |-> "None", v |-> 0],
              out0_att |-> [k |-> "None", v |-> 0],
              out1_att |-> [k |-> "None", v |-> 0]]
        ELSE [lo0_freq |-> NoneFreq]

\* what the message of an exception names: the port-clock and the I/Os of a
\* multiply assigned port-clock, the I/O of a malformed entry, the sequencer
\* indices of two scope mode acquisitions
NoWhy ==
    [kind |-> "none", portclock |-> "none", io_0 |-> "none", io_1 |-> "none",
     sequencer_0 |-> -1, sequencer_1 |-> -1]

RECURSIVE construct_for_targets_no_duplicate_check(_, _, _, _)
construct_for_targets_no_duplicate_check(mod, io_cfg, j, st) ==
    IF j > Len(io_cfg.portclock_configs) \/ st.err # "none" THEN st
    ELSE IF io_cfg.portclock_configs[j].portclock \notin portclocks_with_data(mod)
    THEN construct_for_targets_no_duplicate_check(mod, io_cfg, j + 1, st)
    ELSE construct_for_targets_no_duplicate_check(mod, io_cfg, j + 1,
             [st EXCEPT !.sequencers =
                            Append(@, Sequencer(Len(st.sequencers),
                                                io_cfg.portclock_configs[j].portclock,
                                                io_cfg, io_cfg.portclock_configs[j],
                                                mod.cfg.instrument_type)),
                        !.portclock_io_map =
                            (io_cfg.portclock_configs[j].portclock :> io_cfg.io_name) @@ @])

\* QbloxBaseModule._construct_sequencers: the loop over the targets of one
\* I/O; st is [err, why, sequencers, portclock_io_map]
RECURSIVE construct_for_targets(_, _, _, _)
construct_for_targets(mod, io_cfg, j, st) ==
    IF j > Len(io_cfg.portclock_configs) \/ st.err # "none" THEN st
    ELSE LET target == io_cfg.portclock_configs[j]
             portclock == target.portclock
             new_seq == Sequencer(Len(st.sequencers), portclock, io_cfg, target,
                                  mod.cfg.instrument_type)
         IN  IF portclock \notin portclocks_with_data(mod)
             THEN construct_for_targets(mod, io_cfg, j + 1, st)
             ELSE IF portclock \in DOMAIN st.portclock_io_map
             THEN [st EXCEPT !.err = "ValueError",
                             !.why = [NoWhy EXCEPT !.kind = "duplicate",
                                                   !.portclock = portclock,
                                                   !.io_0 = st.portclock_io_map[portclock],
                                                   !.io_1 = io_cfg.io_name],
                             !.sequencers = Append(@, new_seq)]
             ELSE construct_for_targets(mod, io_cfg, j + 1,
                      [st EXCEPT !.sequencers = Append(@, new_seq),
                                 !.portclock_io_map = @ @@ (portclock :> io_cfg.io_name)])

RECURSIVE construct_for_ios_any_name(_, _, _)
construct_for_ios_any_name(mod, i, st) ==
    IF i > Len(mod.cfg.ios) \/ st.err # "none" THEN st
    ELSE IF mod.cfg.ios[i].portclock_configs = <<>>
    THEN [st EXCEPT !.err = "KeyError",
                    !.why = [NoWhy EXCEPT !.kind = "portclock_configs",
                                          !.io_0 = mod.cfg.ios[i].io_name]]
    ELSE construct_for_ios_any_name(mod, i + 1,
                                    construct_for_targets(mod, mod.cfg.ios[i], 1, st))

\* the loop of _construct_sequencers over the I/Os of the hardware config
RECURSIVE construct_for_ios(_, _, _)
construct_for_ios(mod, i, st) ==
    IF i > Len(mod.cfg.ios) \/ st.err # "none" THEN st
    ELSE LET io_cfg == mod.cfg.ios[i]
         IN  IF io_cfg.io_name \notin ValidIos
             THEN [st EXCEPT !.err = "ValueError",
                             !.why = [NoWhy EXCEPT !.kind = "io_name",
                                                   !.io_0 = io_cfg.io_name]]
             ELSE IF io_cfg.portclock_configs = <<>>
             THEN [st EXCEPT !.err = "KeyError",
                             !.why = [NoWhy EXCEPT !.kind = "portclock_configs",
                                                   !.io_0 = io_cfg.io_name]]
             ELSE construct_for_ios(mod, i + 1, construct_for_targets(mod, io_cfg, 1, st))

construct_sequencers_no_ceiling(mod) ==
    With(construct_for_ios(mod, 1,
                           [err |-> "none", why |-> NoWhy, sequencers |-> <<>>,
                            portclock_io_map |-> <<>>]), LAMBDA st :
        IF st.err # "none" THEN [mod |-> mod, err |-> st.err, why |-> st.why]
        ELSE [mod |-> [mod EXCEPT !.sequencers = st.sequencers],
              err |-> "none", why |-> NoWhy])

\* QbloxBaseModule._construct_sequencers: self.sequencers is assigned only
\* when nothing was raised
construct_sequencers(mod) ==
    LET st == construct_for_ios(mod, 1,
                  [err |-> "none", why |-> NoWhy, sequencers |-> <<>>,
                   portclock_io_map |-> <<>>])
    IN  IF st.err # "none" THEN [mod |-> mod, err |-> st.err, why |-> st.why]
        ELSE IF Len(st.sequencers) > NUMBER_OF_SEQUENCERS
        THEN [mod |-> mod, err |-> "ValueError",
              why |-> [NoWhy EXCEPT !.kind = "max_sequencers"]]
        ELSE [mod |-> [mod EXCEPT !.sequencers = st.sequencers],
              err |-> "none", why |-> NoWhy]

\* an UpdateParameters OpInfo at the timing
UpdateParametersOp(timing) ==
    [OpInfo("upd_param", timing, "none", 0, 0, "none", "none") EXCEPT !.duration = 0]

\* the rounded timings at which _new_update_parameters_for_port_clock adds
\* an upd_param
upd_param_timings_unconditional(pulses_and_acqs, total_play_time) ==
    {RoundNs(pulses_and_acqs[i].timing) :
        i \in {j \in 1..Len(pulses_and_acqs) :
                  is_offset_instruction(pulses_and_acqs[j])}}

upd_param_timings(pulses_and_acqs, total_play_time) ==
    LET any_other_updating_instruction_at_timing(timing) ==
            \E k \in 1..Len(pulses_and_acqs) :
                /\ is_within_half_grid_time(pulses_and_acqs[k].timing, timing)
                /\ is_real_time_io_operation(pulses_and_acqs[k])
    IN  {RoundNs(pulses_and_acqs[i].timing) :
            i \in {j \in 1..Len(pulses_and_acqs) :
                      /\ is_offset_instruction(pulses_and_acqs[j])
                      /\ ~is_within_half_grid_time(total_play_time,
                                                   pulses_and_acqs[j].timing)
                      /\ ~any_other_updating_instruction_at_timing(
                              pulses_and_acqs[j].timing)}}

\* the list made from the set of timings (here in ascending order)
RECURSIVE AscendingOps(_)
AscendingOps(timings) ==
    IF timings = {} THEN <<>>
    ELSE <<UpdateParametersOp(Min(timings))>> \o AscendingOps(timings \ {Min(timings)})

\* QbloxBaseModule._new_update_parameters_for_port_clock
new_update_parameters_for_port_clock(pulses_and_acqs, total_play_time) ==
    AscendingOps(upd_param_timings(pulses_and_acqs, total_play_time))

insert_update_parameters_nowhere(mod) == mod

\* QbloxBaseModule._insert_update_parameters: for every port-clock with pulses
insert_update_parameters(mod) ==
    [mod EXCEPT !.pulses = [pc \in PortClocks |->
        IF mod.pulses[pc] = <<>> THEN <<>>
        ELSE mod.pulses[pc] \o new_update_parameters_for_port_clock(
                 mod.pulses[pc] \o mod.acquisitions[pc], mod.total_play_time)]]

(* ------------------------- frequency assignment ------------------------- *)

FSub(a, b) == IF a.k = "num" /\ b.k = "num" THEN Num(a.v - b.v) ELSE NaNFreq

FAdd(a, b) == IF a.k = "num" /\ b.k = "num" THEN Num(a.v + b.v) ELSE NaNFreq

\* helpers.determine_clock_lo_interm_freqs
determine_clock_lo_interm_freqs(clock, LO, IF_, downconverter_freq, mix_lo) ==
    LET clk == IF downconverter_freq.k = "None" THEN clock
               ELSE FSub(downconverter_freq, clock)
        res(e, lo, if_) == [err |-> e, clock |-> clk, LO |-> lo, IF_ |-> if_]
    IN  IF ~mix_lo THEN res("none", clk, IF_)
        ELSE IF LO.k = "None" /\ IF_.k = "None" THEN res("ValueError", LO, IF_)
        ELSE IF LO.k # "None" /\ IF_.k # "None"
        THEN IF isclose(FAdd(LO, IF_), clk) THEN res("none", LO, IF_)
             ELSE res("ValueError", LO, IF_)
        ELSE IF LO.k = "None" THEN res("none", FSub(clk, IF_), IF_)
        ELSE res("none", LO, FSub(clk, LO))

\* LocalOscillator.frequency (setter): a set frequency cannot be changed
lo_compiler_set_frequency(lo_frequency, value) ==
    IF lo_frequency.k # "None" /\ value # lo_frequency
    THEN [err |-> "ValueError", lo_frequency |-> lo_frequency]
    ELSE [err |-> "none", lo_frequency |-> value]

\* QbloxBaseModule._set_lo_interm_freqs for sequencer i of the module; lo is
\* "baseband" (compiler_lo_baseband given), "rf" (lo0_freq given) or "none";
\* w is [mod, lo_frequency, err]
set_lo_interm_freqs_overwrite(w, i, freqs, lo) ==
    With(IF freqs.LO.k = "None" \/ lo = "none" THEN w
         ELSE IF lo = "baseband"
         THEN With(lo_compiler_set_frequency(w.lo_frequency, freqs.LO), LAMBDA r :
                  [w EXCEPT !.err = r.err, !.lo_frequency = r.lo_frequency])
         ELSE [w EXCEPT !.mod.settings.lo0_freq = freqs.LO], LAMBDA w1 :
        IF w1.err # "none" \/ freqs.IF_.k = "None" THEN w1
        ELSE With(set_frequency(w1.mod.sequencers[i], freqs.IF_), LAMBDA r2 :
                 [w1 EXCEPT !.err = r2.err, !.mod.sequencers[i] = r2.seq]))

set_lo_interm_freqs(w, i, freqs, lo) ==
    With(IF freqs.LO.k = "None" \/ lo = "none" THEN w
         ELSE IF lo = "baseband"
         THEN With(lo_compiler_set_frequency(w.lo_frequency, freqs.LO), LAMBDA r :
                  [w EXCEPT !.err = r.err, !.lo_frequency = r.lo_frequency])
         ELSE IF /\ w.mod.settings.lo0_freq.k = "num"
                 /\ ~isclose(freqs.LO, w.mod.settings.lo0_freq)
         THEN [w EXCEPT !.err = "ValueError"]
         ELSE [w EXCEPT !.mod.settings.lo0_freq = freqs.LO], LAMBDA w1 :
        IF w1.err # "none" \/ freqs.IF_.k = "None" THEN w1
        ELSE With(set_frequency(w1.mod.sequencers[i], freqs.IF_), LAMBDA r2 :
                 [w1 EXCEPT !.err = r2.err, !.mod.sequencers[i] = r2.seq]))

\* QbloxBasebandModule.assign_frequencies that assigns without the test for 0
baseband_assign_frequencies_unpinned(w, i, resources, has_lo) ==
    LET sequencer == w.mod.sequencers[i]
        clock_freq == resources[ClockOf(sequencer.portclock)]
    IN  IF clock_freq.k = "None" THEN w
        ELSE IF sequencer.associated_ext_lo = "none"
        THEN With(set_frequency_overwrite(sequencer, clock_freq), LAMBDA r :
                 [w EXCEPT !.err = r.err, !.mod.sequencers[i] = r.seq])
        ELSE IF ~has_lo THEN [w EXCEPT !.err = "RuntimeError"]
        ELSE With(determine_clock_lo_interm_freqs(
                      clock_freq, w.lo_frequency, sequencer.modulation_freq,
                      NoneFreq, sequencer.mix_lo), LAMBDA freqs :
                 IF freqs.err # "none" THEN [w EXCEPT !.err = freqs.err]
                 ELSE set_lo_interm_freqs(w, i, freqs, "baseband"))

\* QbloxBasebandModule.assign_frequencies for sequencer i; resources maps a
\* clock to its frequency, None for a clock that is no resource; has_lo says
\* whether the LO named by the sequencer is an instrument of the container
baseband_assign_frequencies(w, i, resources, has_lo) ==
    LET sequencer == w.mod.sequencers[i]
        clock_freq == resources[ClockOf(sequencer.portclock)]
    IN  IF clock_freq.k = "None" THEN w
        ELSE IF sequencer.associated_ext_lo = "none"
        THEN IF sequencer.modulation_freq # Num(0)
             THEN With(set_frequency(sequencer, clock_freq), LAMBDA r :
                      [w EXCEPT !.err = r.err, !.mod.sequencers[i] = r.seq])
             ELSE w
        ELSE IF ~has_lo THEN [w EXCEPT !.err = "RuntimeError"]
        ELSE With(determine_clock_lo_interm_freqs(
                      clock_freq, w.lo_frequency, sequencer.modulation_freq,
                      NoneFreq, sequencer.mix_lo), LAMBDA freqs :
                 IF freqs.err # "none" THEN [w EXCEPT !.err = freqs.err]
                 ELSE set_lo_interm_freqs(w, i, freqs, "baseband"))

\* QbloxRFModule.assign_frequencies for sequencer i (its outputs are those of
\* complex_output_0, whose LO is lo0)
rf_assign_frequencies_unmixed(w, i, resources) ==
    LET sequencer == w.mod.sequencers[i]
        clock_freq == resources[ClockOf(sequencer.portclock)]
    IN  IF clock_freq.k = "None" THEN w
        ELSE With(determine_clock_lo_interm_freqs(
                      clock_freq, w.mod.settings.lo0_freq, sequencer.modulation_freq,
                      NoneFreq, FALSE), LAMBDA freqs :
                 IF freqs.err # "none" THEN [w EXCEPT !.err = freqs.err]
                 ELSE set_lo_interm_freqs(w, i, freqs, "rf"))

rf_assign_frequencies(w, i, resources) ==
    LET sequencer == w.mod.sequencers[i]
        clock_freq == resources[ClockOf(sequencer.portclock)]
    IN  IF clock_freq.k = "None" THEN w
        ELSE With(determine_clock_lo_interm_freqs(
                      clock_freq, w.mod.settings.lo0_freq, sequencer.modulation_freq,
                      NoneFreq, TRUE), LAMBDA freqs :
                 IF freqs.err # "none" THEN [w EXCEPT !.err = freqs.err]
                 ELSE set_lo_interm_freqs(w, i, freqs, "rf"))

\* assign_frequencies of the module's class
assign_frequencies(w, i, resources, has_lo) ==
    IF w.mod.cfg.instrument_type \in RFTypes
    THEN rf_assign_frequencies(w, i, resources)
    ELSE baseband_assign_frequencies(w, i, resources, has_lo)

\* the loop of prepare() over the sequencers
RECURSIVE assign_all_frequencies(_, _, _, _)
assign_all_frequencies(w, i, resources, has_lo) ==
    IF i > Len(w.mod.sequencers) \/ w.err # "none" THEN w
    ELSE assign_all_frequencies(assign_frequencies(w, i, resources, has_lo),
                                i + 1, resources, has_lo)

(* ------------------------ prepare() and compile() ----------------------- *)

\* data.update of distribute_data on the pulses of one queue for sequencer
\* seq: a SetClockFrequency pulse gets the frequency of the sequencer's clock
\* in the resources and the frequency of the sequencer
backfill(pulse_data_list, seq, clock_resources) ==
    [k \in 1..Len(pulse_data_list) |->
        IF pulse_data_list[k].kind = "set_freq"
        THEN [pulse_data_list[k] EXCEPT
                 !.clock_freq_old = clock_resources[ClockOf(seq.portclock)],
                 !.interm_freq_old = seq.modulation_freq]
        ELSE pulse_data_list[k]]

\* the sequencers of a clock, which the pulses of the None port go to
SequencersOfClock(mod, clock) ==
    {i \in 1..Len(mod.sequencers) : ClockOf(mod.sequencers[i].portclock) = clock}

\* the queue of the None port and a clock after distribute_data: every
\* sequencer of the clock updates the data of the same OpInfo objects, in the
\* order of the sequencers, so they end with the values of the last one
shared_backfill(mod, clock, clock_resources) ==
    IF SequencersOfClock(mod, clock) = {} THEN mod.clock_pulses[clock]
    ELSE backfill(mod.clock_pulses[clock],
                  mod.sequencers[Max(SequencersOfClock(mod, clock))], clock_resources)

\* QbloxBaseModule.distribute_data: every sequencer gets the pulses and the
\* acquisitions queued for its port-clock and the pulses queued for the None
\* port and its clock; the SetClockFrequency pulses are updated in place, in
\* the queues and so in every sequencer that holds them; in a sequencer the
\* pulses of its port-clock are put before those of the None port (the code
\* follows the order of the keys of _pulses; generate_qasm_program sorts the
\* operations by their timing)
distribute_data(mod, clock_resources) ==
    [mod EXCEPT
     !.pulses = [pc \in PortClocks |->
        IF \E i \in 1..Len(mod.sequencers) : mod.sequencers[i].portclock = pc
        THEN backfill(mod.pulses[pc],
                      mod.sequencers[CHOOSE i \in 1..Len(mod.sequencers) :
                                         mod.sequencers[i].portclock = pc],
                      clock_resources)
        ELSE mod.pulses[pc]],
     !.clock_pulses = [clock \in Clocks |-> shared_backfill(mod, clock, clock_resources)],
     !.sequencers = [i \in 1..Len(mod.sequencers) |->
        [mod.sequencers[i] EXCEPT
            !.pulses = @ \o backfill(mod.pulses[mod.sequencers[i].portclock],
                                     mod.sequencers[i], clock_resources)
                         \o shared_backfill(mod, ClockOf(mod.sequencers[i].portclock),
                                            clock_resources),
            !.acquisitions =
                IF mod.acquisitions[mod.sequencers[i].portclock] = <<>> THEN @
                ELSE mod.acquisitions[mod.sequencers[i].portclock]]]]

\* whether distribute_data raises: acquisitions on a module without inputs
distribute_data_err(mod) ==
    IF /\ \E pc \in PortClocks : mod.acquisitions[pc] # <<>>
       /\ ~supports_acquisition(mod.cfg.instrument_type)
    THEN "RuntimeError" ELSE "none"

\* is_scope_acquisition on the acquisitions of a sequencer
has_scope(seq) ==
    \E k \in 1..Len(seq.acquisitions) : seq.acquisitions[k].protocol = "Trace"

\* QbloxBaseModule._ensure_single_scope_mode_acquisition_sequencer: the loop
\* over the sequencers from sequencer i on; scope_acq_seq is the index of the
\* last sequencer seen with a Trace acquisition, -1 for None; the second
\* such sequencer raises, by helpers.single_scope_mode_acquisition_raise
ensure_single_scope_unchecked(mod, i, scope_acq_seq) ==
    [err |-> "none", why |-> NoWhy]

RECURSIVE ensure_single_scope(_, _, _)
ensure_single_scope(mod, i, scope_acq_seq) ==
    IF i > Len(mod.sequencers) THEN [err |-> "none", why |-> NoWhy]
    ELSE IF ~has_scope(mod.sequencers[i])
    THEN ensure_single_scope(mod, i + 1, scope_acq_seq)
    ELSE IF scope_acq_seq # -1
    THEN [err |-> "ValueError",
          why |-> [NoWhy EXCEPT !.kind = "single_scope",
                                !.sequencer_0 = scope_acq_seq,
                                !.sequencer_1 = mod.sequencers[i].index]]
    ELSE ensure_single_scope(mod, i + 1, mod.sequencers[i].index)

(* ------------------------------ attenuation ----------------------------- *)

\* an attenuation of the hardware config: None, or a float, in 1/AttPerDb dB
NoAtt == [k |-> "None", v |-> 0]

Att(v) == [k |-> "num", v |-> v]

\* instrument_cfg.get(io_name, {}): the I/O entry of the name, or {}
IoGet(cfg, io_name) ==
    IF \E i \in 1..Len(cfg.ios) : cfg.ios[i].io_name = io_name
    THEN cfg.ios[CHOOSE i \in 1..Len(cfg.ios) : cfg.ios[i].io_name = io_name]
    ELSE <<>>

\* io_cfg.get(key, None) for an attenuation
AttGet(io_cfg, key) == IF key \in DOMAIN io_cfg THEN io_cfg[key] ELSE NoAtt

\* _convert_to_int of assign_attenuation: None stays None, a float that is
\* a multiple of 1 becomes an int, any other float raises ValueError
convert_to_int(value, label) ==
    IF value.k = "None" THEN [err |-> "none", label |-> label, value |-> NoAtt]
    ELSE IF value.v % AttPerDb # 0
    THEN [err |-> "ValueError", label |-> label, value |-> NoAtt]
    ELSE [err |-> "none", label |-> label,
          value |-> [k |-> "int", v |-> value.v \div AttPerDb]]

rf_assign_attenuation_output_wins(mod) ==
    With(IF AttGet(IoGet(mod.cfg, "complex_output_0"), "input_att").k # "None"
         THEN AttGet(IoGet(mod.cfg, "complex_output_0"), "input_att")
         ELSE AttGet(IoGet(mod.cfg, "complex_input_0"), "input_att"), LAMBDA input_att :
    With(convert_to_int(input_att, "in0_att"), LAMBDA in0 :
        IF in0.err # "none"
        THEN [mod |-> mod, err |-> in0.err, why |-> [NoWhy EXCEPT !.kind = "in0_att"]]
        ELSE [mod |-> [mod EXCEPT !.settings.in0_att = in0.value],
              err |-> "none", why |-> NoWhy]))

\* QbloxRFModule.assign_attenuation: in0_att from the input_att of
\* complex_input_0 or of complex_output_0, out0_att and out1_att from the
\* output_att of the outputs; the settings are assigned one after the
\* other, up to the first ValueError
rf_assign_attenuation(mod) ==
    LET complex_input_0 == IoGet(mod.cfg, "complex_input_0")
        complex_output_0 == IoGet(mod.cfg, "complex_output_0")
        complex_output_1 == IoGet(mod.cfg, "complex_output_1")
        input_att_output == AttGet(complex_output_0, "input_att")
        input_att == AttGet(complex_input_0, "input_att")
        in0 == convert_to_int(IF input_att_output.k # "None" THEN input_att_output
                              ELSE input_att, "in0_att")
        out0 == convert_to_int(AttGet(complex_output_0, "output_att"), "out0_att")
        out1 == convert_to_int(AttGet(complex_output_1, "output_att"), "out1_att")
        raised(m, kind) ==
            [mod |-> m, err |-> "ValueError", why |-> [NoWhy EXCEPT !.kind = kind]]
    IN  IF input_att_output.k # "None" /\ input_att.k # "None"
        THEN raised(mod, "input_att")
        ELSE IF in0.err # "none" THEN raised(mod, "in0_att")
        ELSE IF out0.err # "none"
        THEN raised([mod EXCEPT !.settings.in0_att = in0.value], "out0_att")
        ELSE IF out1.err # "none"
        THEN raised([mod EXCEPT !.settings.in0_att = in0.value,
                                !.settings.out0_att = out0.value], "out1_att")
        ELSE [mod |-> [mod EXCEPT !.settings.in0_att = in0.value,
                                  !.settings.out0_att = out0.value,
                                  !.settings.out1_att = out1.value],
              err |-> "none", why |-> NoWhy]

\* assign_attenuation of the class of the module: the baseband modules have
\* no attenuation
assign_attenuation(mod) ==
    IF mod.cfg.instrument_type \in RFTypes THEN rf_assign_attenuation(mod)
    ELSE [mod |-> mod, err |-> "none", why |-> NoWhy]

\* QbloxBaseModule.prepare on w = [mod, lo_frequency, err, why]: the steps in the
\* order of the code, the first exception ends the call
prepare(w, resources, has_lo) ==
    With([w.mod EXCEPT !.settings = extract_settings_from_mapping(w.mod.cfg)], LAMBDA m1 :
    With(construct_sequencers(m1), LAMBDA c :
        IF c.err # "none" THEN [w EXCEPT !.mod = m1, !.err = c.err, !.why = c.why]
        ELSE With(assign_all_frequencies(
                      [w EXCEPT !.mod = insert_update_parameters(c.mod)],
                      1, resources, has_lo), LAMBDA w3 :
            IF w3.err # "none" THEN w3
            ELSE IF distribute_data_err(w3.mod) # "none"
            THEN [w3 EXCEPT !.err = distribute_data_err(w3.mod)]
            ELSE With(distribute_data(w3.mod, resources), LAMBDA m4 :
                 With(ensure_single_scope(m4, 1, -1), LAMBDA sc :
                     IF sc.err # "none"
                     THEN [w3 EXCEPT !.mod = m4, !.err = sc.err, !.why = sc.why]
                     ELSE With(assign_attenuation(m4), LAMBDA att :
                              [w3 EXCEPT !.mod = att.mod, !.err = att.err,
                                         !.why = att.why]))))))

Instruments == {"m0", "m1"}

\* the instrument compilers in the order of the hardware config
InstrumentOrder == <<"m0", "m1">>

\* a call of a method of an instrument compiler, in the order of the calls
Call(method, name) == [method |-> method, name |-> name]

\* the loop of CompilerContainer.compile that prepares every compiler;
\* c is [mods, lo_frequency, err, why, trace]
RECURSIVE prepare_all(_, _, _)
prepare_all(c, i, resources) ==
    IF i > Len(InstrumentOrder) \/ c.err # "none" THEN c
    ELSE With(prepare([mod |-> c.mods[InstrumentOrder[i]],
                       lo_frequency |-> c.lo_frequency, err |-> "none",
                       why |-> NoWhy],
                      resources, TRUE), LAMBDA w :
             prepare_all([mods |-> [c.mods EXCEPT ![InstrumentOrder[i]] = w.mod],
                          lo_frequency |-> w.lo_frequency, err |-> w.err,
                          why |-> w.why,
                          trace |-> Append(c.trace, Call("prepare", InstrumentOrder[i]))],
                         i + 1, resources))

\* the loop of CompilerContainer.compile that compiles every compiler;
\* c is [mods, err, compiled_schedule, runs, trace]; a compiler that returns
\* None gets no key
RECURSIVE compile_all(_, _, _)
compile_all(c, i, repetitions) ==
    IF i > Len(InstrumentOrder) \/ c.err # "none" THEN c
    ELSE With(module_compile(c.mods[InstrumentOrder[i]], repetitions), LAMBDA r :
             compile_all([mods |-> [c.mods EXCEPT ![InstrumentOrder[i]] = r.mod],
                          err |-> r.err,
                          compiled_schedule |->
                              IF r.err = "none" /\ ~r.is_none
                              THEN c.compiled_schedule @@ (InstrumentOrder[i] :> r.program)
                              ELSE c.compiled_schedule,
                          runs |-> [c.runs EXCEPT ![InstrumentOrder[i]] = r.runs],
                          trace |-> Append(c.trace, Call("compile", InstrumentOrder[i]))],
                         i + 1, repetitions))

\* what CompilerContainer.compile leaves behind: the compilers, the exception
\* and the loop it was raised in, the dictionary returned, the calls made
Compiled(p, c, raised_in) ==
    [mods |-> c.mods, lo_frequency |-> p.lo_frequency, err |-> c.err,
     why |-> c.why, raised_in |-> IF c.err = "none" THEN "none" ELSE raised_in,
     compiled_schedule |-> IF c.err = "none" THEN c.compiled_schedule ELSE <<>>,
     runs |-> c.runs, trace |-> c.trace]

\* prepare() and compile() on one compiler after the other
RECURSIVE prepare_compile_each(_, _, _, _)
prepare_compile_each(c, i, resources, repetitions) ==
    IF i > Len(InstrumentOrder) \/ c.err # "none" THEN c
    ELSE With(prepare([mod |-> c.mods[InstrumentOrder[i]],
                       lo_frequency |-> c.lo_frequency, err |-> "none",
                       why |-> NoWhy],
                      resources, TRUE), LAMBDA w :
         With(Append(c.trace, Call("prepare", InstrumentOrder[i])), LAMBDA t :
             IF w.err # "none"
             THEN [c EXCEPT !.mods[InstrumentOrder[i]] = w.mod, !.err = w.err,
                            !.why = w.why, !.trace = t, !.raised_in = "prepare"]
             ELSE With(module_compile(w.mod, repetitions), LAMBDA r :
                 prepare_compile_each(
                     [mods |-> [c.mods EXCEPT ![InstrumentOrder[i]] = r.mod],
                      lo_frequency |-> w.lo_frequency, err |-> r.err, why |-> NoWhy,
                      raised_in |-> "compile",
                      compiled_schedule |->
                          IF r.err = "none" /\ ~r.is_none
                          THEN c.compiled_schedule @@ (InstrumentOrder[i] :> r.program)
                          ELSE c.compiled_schedule,
                      runs |-> [c.runs EXCEPT ![InstrumentOrder[i]] = r.runs],
                      trace |-> Append(t, Call("compile", InstrumentOrder[i]))],
                     i + 1, resources, repetitions))))

container_compile_interleaved(mods, lo_freq, resources, repetitions) ==
    With(prepare_compile_each(
             [mods |-> mods, lo_frequency |-> lo_freq, err |-> "none", why |-> NoWhy,
              raised_in |-> "none", compiled_schedule |-> <<>>,
              runs |-> [m \in Instruments |-> <<>>], trace |-> <<>>],
             1, resources, repetitions), LAMBDA c : Compiled(c, c, c.raised_in))

\* CompilerContainer.compile: prepare() on every compiler, then compile()
container_compile(mods, lo_freq, resources, repetitions) ==
    With(prepare_all([mods |-> mods, lo_frequency |-> lo_freq, err |-> "none",
                      why |-> NoWhy, trace |-> <<>>],
                     1, resources), LAMBDA p :
        IF p.err # "none"
        THEN Compiled(p, p @@ [compiled_schedule |-> <<>>,
                               runs |-> [m \in Instruments |-> <<>>]],
                      "prepare")
        ELSE With(compile_all([mods |-> p.mods, err |-> "none",
                               compiled_schedule |-> <<>>,
                               runs |-> [m \in Instruments |-> <<>>],
                               trace |-> p.trace],
                              1, repetitions), LAMBDA c :
                 Compiled(p, c @@ [why |-> NoWhy], "compile")))

(* --------------------------- ScheduleGettable --------------------------- *)

\* ScheduleGettable.__init__: not initialized, no compiled schedule
NewGettable(always_initialize) ==
    [always_initialize |-> always_initialize, is_initialized |-> FALSE,
     compiled_schedule |-> "None", evaluated_sched_kwargs |-> -1,
     initialized |-> 0, gets |-> 0, err |-> "none"]

\* what the calls of initialize() do: the schedule function, the backend's
\* compile or the instrument coordinator's prepare raises, the backend
\* returns None, or all of them pass
InitializeOutcomes == {"ok", "schedule_function", "compile", "compile_none", "prepare"}

\* ScheduleGettable.initialize: evaluates the schedule kwargs, generates the
\* schedule, compiles it (_compile assigns _compiled_schedule), prepares the
\* instrument coordinator and sets is_initialized last
gettable_initialize(g, value, what) ==
    With([g EXCEPT !.evaluated_sched_kwargs = value, !.initialized = @ + 1], LAMBDA g1 :
        IF what = "schedule_function" \/ what = "compile"
        THEN [g1 EXCEPT !.err = "raised"]
        ELSE With([g1 EXCEPT !.compiled_schedule =
                                 IF what = "compile_none" THEN "None" ELSE "sched"],
                  LAMBDA g2 :
                 IF what = "prepare" THEN [g2 EXCEPT !.err = "raised"]
                 ELSE [g2 EXCEPT !.is_initialized = TRUE]))

\* get() with an initialize() in every call
gettable_get_always_initialize(g, value, what, acquired) ==
    With(gettable_initialize([g EXCEPT !.gets = @ + 1, !.err = "none"], value, what),
         LAMBDA g1 :
        IF g1.err # "none" THEN g1
        ELSE IF g1.compiled_schedule = "None" THEN [g1 EXCEPT !.err = "RuntimeError"]
        ELSE IF ~acquired THEN [g1 EXCEPT !.err = "RuntimeError"]
        ELSE g1)

\* ScheduleGettable.get: stops the instruments, initializes when the
\* gettable is not initialized or always_initialize is set, raises
\* RuntimeError without a compiled schedule, runs the schedule and raises
\* RuntimeError when no data comes back
gettable_get(g, value, what, acquired) ==
    With(IF ~g.is_initialized \/ g.always_initialize
         THEN gettable_initialize([g EXCEPT !.gets = @ + 1, !.err = "none"], value, what)
         ELSE [g EXCEPT !.gets = @ + 1, !.err = "none"], LAMBDA g1 :
        IF g1.err # "none" THEN g1
        ELSE IF g1.compiled_schedule = "None" THEN [g1 EXCEPT !.err = "RuntimeError"]
        ELSE IF ~acquired THEN [g1 EXCEPT !.err = "RuntimeError"]
        ELSE g1)

(* ------------------------------- the state ------------------------------ *)

VARIABLES
    total_play_time,      \* CompilerContainer.total_play_time, in ticks
    resources,            \* CompilerContainer.resources: clock -> frequency
    instrument_compilers, \* CompilerContainer.instrument_compilers: the modules
    lo_frequency,         \* the frequency of the LocalOscillator compiler lo0
    compiled_schedule,    \* what the last CompilerContainer.compile returned
    runs,                 \* the generate_qasm_program runs of that call
    outcome,              \* the last call: its name, arguments and exception
    calls,                \* the number of CompilerContainer.compile calls
    direct,               \* the number of direct calls of a setter
    gettable              \* the ScheduleGettable of the experiment

vars == <<total_play_time, resources, instrument_compilers, lo_frequency,
          compiled_schedule, runs, outcome, calls, direct, gettable>>

NoOutcome == [call |-> "none", err |-> "none", raised_in |-> "none", reps |-> 0,
              target |-> "none", seq |-> 0, freq |-> NoneFreq, lo |-> NoneFreq,
              why |-> NoWhy, trace |-> <<>>, hw_format |-> "none"]

\* an I/O entry of the hardware config of a module
IoCfg(io_name, lo_name, lo_freq, mix_lo, marker_debug, portclock_configs) ==
    [io_name |-> io_name, lo_name |-> lo_name, lo_freq |-> lo_freq,
     mix_lo |-> mix_lo, marker_debug_mode_enable |-> marker_debug,
     portclock_configs |-> portclock_configs]

\* a portclock_configs entry
Target(portclock, interm_freq) == [portclock |-> portclock, interm_freq |-> interm_freq]

\* the port-clocks the hardware config gives to a module
portclocks(mod) ==
    UNION {{mod.cfg.ios[i].portclock_configs[j].portclock :
               j \in 1..Len(mod.cfg.ios[i].portclock_configs)} :
           i \in 1..Len(mod.cfg.ios)}

\* the operations assigned to the modules so far
RECURSIVE CountOps(_, _)
CountOps(mods, S) ==
    IF S = {} THEN 0
    ELSE LET x == CHOOSE y \in S : TRUE
         IN  Len(mods[x[1]].pulses[x[2]]) + Len(mods[x[1]].acquisitions[x[2]])
             + CountOps(mods, S \ {x})

TotalOps == CountOps(instrument_compilers, Instruments \X PortClocks)

(* ------------------------------ the actions ----------------------------- *)

\* ControlDeviceCompiler.add_pulse, as assign_pulse_and_acq_info_to_devices
\* calls it for a pulse on a port-clock of the module
add_pulse(m, pc, pulse_info) ==
    /\ calls = 0
    /\ TotalOps < MaxOps
    /\ instrument_compilers' =
           [instrument_compilers EXCEPT ![m].pulses[pc] = Append(@, pulse_info)]
    /\ outcome' = [NoOutcome EXCEPT !.call = "add_pulse", !.target = m]
    /\ UNCHANGED <<gettable, total_play_time, resources, lo_frequency, compiled_schedule,
                   runs, calls, direct>>

\* ControlDeviceCompiler.add_pulse with the port None: the pulse is queued
\* for the clock alone
add_clock_pulse(m, clock, pulse_info) ==
    /\ calls = 0
    /\ Len(instrument_compilers[m].clock_pulses[clock]) < MaxClockOps
    /\ instrument_compilers' =
           [instrument_compilers EXCEPT ![m].clock_pulses[clock] = Append(@, pulse_info)]
    /\ outcome' = [NoOutcome EXCEPT !.call = "add_pulse", !.target = m]
    /\ UNCHANGED <<gettable, total_play_time, resources, lo_frequency, compiled_schedule,
                   runs, calls, direct>>

add_acquisition_unchecked(m, pc, acq_info) ==
    /\ calls = 0
    /\ TotalOps < MaxOps
    /\ instrument_compilers' =
           [instrument_compilers EXCEPT ![m].acquisitions[pc] = Append(@, acq_info)]
    /\ outcome' = [NoOutcome EXCEPT !.call = "add_acquisition", !.target = m]
    /\ UNCHANGED <<gettable, total_play_time, resources, lo_frequency, compiled_schedule,
                   runs, calls, direct>>

\* ControlDeviceCompiler.add_acquisition
add_acquisition(m, pc, acq_info) ==
    /\ calls = 0
    /\ TotalOps < MaxOps
    /\ IF supports_acquisition(instrument_compilers[m].cfg.instrument_type)
       THEN /\ instrument_compilers' =
                   [instrument_compilers EXCEPT
                       ![m].acquisitions[pc] = Append(@, acq_info)]
            /\ outcome' = [NoOutcome EXCEPT !.call = "add_acquisition", !.target = m]
       ELSE /\ instrument_compilers' = instrument_compilers
            /\ outcome' = [NoOutcome EXCEPT !.call = "add_acquisition", !.target = m,
                                            !.err = "RuntimeError"]
    /\ UNCHANGED <<gettable, total_play_time, resources, lo_frequency, compiled_schedule,
                   runs, calls, direct>>

\* CompilerContainer.compile(repetitions)
ContainerCompile(repetitions) ==
    /\ calls < MaxCalls
    /\ \E r \in {container_compile(instrument_compilers, lo_frequency, resources,
                                    repetitions)} :
           /\ instrument_compilers' = r.mods
           /\ lo_frequency' = r.lo_frequency
           /\ compiled_schedule' = r.compiled_schedule
           /\ runs' = r.runs
           /\ outcome' = [NoOutcome EXCEPT !.call = "compile", !.err = r.err,
                                           !.raised_in = r.raised_in,
                                           !.reps = repetitions,
                                           !.why = r.why, !.trace = r.trace]
    /\ calls' = calls + 1
    /\ UNCHANGED <<gettable, total_play_time, resources, direct>>

\* sequencer.frequency = freq, on sequencer i of the module
SetFrequency(m, i, freq) ==
    /\ direct < MaxDirect
    /\ i \in 1..Len(instrument_compilers[m].sequencers)
    /\ \E r \in {set_frequency(instrument_compilers[m].sequencers[i], freq)} :
           /\ instrument_compilers' =
                  [instrument_compilers EXCEPT ![m].sequencers[i] = r.seq]
           /\ outcome' = [NoOutcome EXCEPT !.call = "set_frequency", !.err = r.err,
                                           !.target = m, !.seq = i, !.freq = freq]
    /\ direct' = direct + 1
    /\ UNCHANGED <<gettable, total_play_time, resources, lo_frequency, compiled_schedule,
                   runs, calls>>

\* QbloxBaseModule._set_lo_interm_freqs(freqs, sequencer, ...) on sequencer i
\* of the module, with the LO of the module's class
SetLoIntermFreqs(m, i, LO, IF_) ==
    /\ direct < MaxDirect
    /\ i \in 1..Len(instrument_compilers[m].sequencers)
    /\ \E r \in {set_lo_interm_freqs(
                     [mod |-> instrument_compilers[m], lo_frequency |-> lo_frequency,
                      err |-> "none", why |-> NoWhy],
                     i, [clock |-> NoneFreq, LO |-> LO, IF_ |-> IF_, err |-> "none"],
                     IF instrument_compilers[m].cfg.instrument_type \in RFTypes
                     THEN "rf" ELSE "baseband")} :
           /\ instrument_compilers' = [instrument_compilers EXCEPT ![m] = r.mod]
           /\ lo_frequency' = r.lo_frequency
           /\ outcome' = [NoOutcome EXCEPT !.call = "set_lo_interm_freqs",
                                           !.err = r.err, !.target = m, !.seq = i,
                                           !.lo = LO, !.freq = IF_]
    /\ direct' = direct + 1
    /\ UNCHANGED <<gettable, total_play_time, resources, compiled_schedule, runs, calls>>

(* ----------- the compilation of a schedule on two modules --------------- *)

\* the timings of the operations: the grid points, and one just after the
\* first grid point
Timings == {Ns(GRID_TIME * g) : g \in 0..MaxGrid} \cup {Ns(GRID_TIME) + 1}

PulseInputs ==
    {PulseOp("play", t, w) : t \in Timings, w \in Waveforms}
        \cup {PulseOp("offset", t, "none") : t \in Timings}

AcqInputs ==
    {AcqOp(t, 0, 0, "average", "SSBIntegrationComplex") : t \in Timings}

\* m0 is a QRM with port-clock pc0, m1 a QCM-RF with port-clock pc1
Init ==
    /\ total_play_time = Ns(GRID_TIME * MaxGrid)
    /\ resources = [c \in Clocks |-> IF c = "c0" THEN Num(150) ELSE Num(170)]
    /\ instrument_compilers =
           [m \in Instruments |->
               IF m = "m0"
               THEN NewModule([instrument_type |-> "QRM",
                               ios |-> <<IoCfg("complex_output_0", "none", NoneFreq,
                                               TRUE, FALSE,
                                               <<Target("pc0", NoneFreq)>>)>>],
                              total_play_time)
               ELSE NewModule([instrument_type |-> "QCM_RF",
                               ios |-> <<IoCfg("complex_output_0", "none", Num(100),
                                               TRUE, FALSE,
                                               <<Target("pc1", NoneFreq)>>)>>],
                              total_play_time)]
    /\ lo_frequency = NoneFreq
    /\ compiled_schedule = <<>>
    /\ runs = [m \in Instruments |-> <<>>]
    /\ outcome = NoOutcome
    /\ calls = 0
    /\ direct = 0
    /\ gettable = NewGettable(TRUE)

AddPulse ==
    \E m \in Instruments : \E pc \in portclocks(instrument_compilers[m]) :
        \E op \in PulseInputs :
            /\ m = "m1" => op.kind = "play" /\ op.wf = "w_short" /\ op.timing = 0
            /\ add_pulse(m, pc, op)

AddAcquisition ==
    \E m \in Instruments : \E pc \in portclocks(instrument_compilers[m]) :
        \E op \in AcqInputs :
            /\ m = "m1" => op.timing = 0
            /\ add_acquisition(m, pc, op)

Compile == \E r \in 1..MaxReps : ContainerCompile(r)

Next == AddPulse \/ AddAcquisition \/ Compile

Spec == Init /\ [][Next]_vars

(* --------------------- properties of a compilation ---------------------- *)

\* the runs of generate_qasm_program of the last compile: module and sequencer
Runs == {<<m, k>> : m \in Instruments, k \in 1..MaxOps} \cap
        {x \in Instruments \X (1..MaxOps) : x[2] <= Len(runs[x[1]])}

\* the run of sequencer k of module m, and the operations it was given
RunOf(x) == runs[x[1]][x[2]]

OpsOf(x) ==
    instrument_compilers[x[1]].sequencers[x[2]].pulses
        \o instrument_compilers[x[1]].sequencers[x[2]].acquisitions

\* the positions of the instructions of operation id in a program
PositionsOf(program, id) == {p \in 1..Len(program) : program[p].op = id}

\* the time one instruction of a program takes, in ns
InstrTime(i) ==
    CASE i.instr = "wait" -> i.a
      [] i.instr = "upd_param" -> i.a
      [] i.instr = "play" -> i.b
      [] i.instr = "acquire" -> GRID_TIME
      [] OTHER -> 0

\* the time of one repetition of a program: its instructions from the label
\* of the loop on
LoopTime(program) ==
    LET start == Min({p \in 1..Len(program) : program[p].instr = "label_start"})
        T[p \in 0..Len(program)] ==
            IF p = 0 THEN 0
            ELSE IF p < start THEN 0
            ELSE T[p - 1] + InstrTime(program[p])
    IN  T[Len(program)]

\* C1: the operations of a sequencer are processed in ascending order of
\* their timing rounded to the nanosecond and, at equal rounded timing, an
\* operation that is no real-time I/O operation (an offset) comes before the
\* real-time I/O operations; the instructions of the operations are in the
\* program in that order.
C1_SortedByRoundedTiming ==
    \A x \in Runs :
        LET r == RunOf(x)
            ops == OpsOf(x)
        IN  /\ r.program # <<>> => Len(r.op_list) = Len(ops)
            /\ \A i, j \in 1..Len(r.op_list) :
                   i < j =>
                       LET a == ops[r.op_list[i]]
                           b == ops[r.op_list[j]]
                       IN  /\ RoundNs(a.timing) <= RoundNs(b.timing)
                           /\ RoundNs(a.timing) = RoundNs(b.timing)
                                  => ~(is_real_time_io_operation(a)
                                       /\ is_offset_instruction(b))
                           /\ \A p \in PositionsOf(r.program, r.op_list[i]) :
                                  \A q \in PositionsOf(r.program, r.op_list[j]) : p < q

\* a program was generated in which an offset given after a play of the same
\* rounded (but another exact) timing has its instruction before the play's
C1_Witness ==
    \E x \in Runs :
        LET r == RunOf(x)
            ops == OpsOf(x)
        IN  /\ r.err = "none"
            /\ \E i, j \in 1..Len(ops) :
                   /\ i < j
                   /\ has_wf_func(ops[i]) /\ is_offset_instruction(ops[j])
                   /\ ops[i].timing < ops[j].timing
                   /\ RoundNs(ops[i].timing) = RoundNs(ops[j].timing)
                   /\ \E p \in PositionsOf(r.program, j) :
                          \E q \in PositionsOf(r.program, i) : p < q

\* C2: every program generated under one container lasts, per repetition,
\* exactly to_grid_time(total_play_time) after the update of the phase reset:
\* the last wait of the loop is the end time minus the time elapsed after the
\* last operation, and there is no such wait when that difference is zero.
C2_LoopFillsTotalPlayTime ==
    \A x \in Runs :
        LET r == RunOf(x)
            n == Len(r.program)
        IN  (r.err = "none" /\ n > 0) =>
                /\ r.elapsed_time = to_grid_time(total_play_time).ns
                /\ LoopTime(r.program) = GRID_TIME + to_grid_time(total_play_time).ns
                /\ r.program[n].instr = "stop" /\ r.program[n - 1].instr = "loop"
                /\ r.wait_time >= 0
                /\ r.wait_time > 0 =>
                       /\ r.program[n - 2].instr = "wait"
                       /\ r.program[n - 2].a = r.wait_time
                       /\ r.program[n - 2].op = 0
                /\ r.wait_time = 0 => r.program[n - 2].op # 0
                /\ \A y \in Runs :
                       (RunOf(y).err = "none" /\ Len(RunOf(y).program) > 0)
                           => LoopTime(RunOf(y).program) = LoopTime(r.program)

\* two sequencers of two modules were compiled, one filled up with a final
\* wait, one whose operations fill total_play_time exactly
C2_Witness ==
    \E x, y \in Runs :
        /\ x[1] # y[1]
        /\ RunOf(x).err = "none" /\ RunOf(y).err = "none"
        /\ RunOf(x).wait_time > 0
        /\ RunOf(y).wait_time = 0 /\ Len(RunOf(y).program) > 0

\* C3: when the operations of a sequencer were all processed and the time
\* elapsed exceeds to_grid_time(total_play_time), generate_qasm_program
\* raises RuntimeError, the compilation returns no program, and no program
\* has a wait of a negative time.
C3_NegativeWaitIsFatal ==
    \A x \in Runs :
        LET r == RunOf(x)
        IN  /\ (r.drained /\ r.elapsed_time > to_grid_time(total_play_time).ns) =>
                   /\ r.err = "RuntimeError"
                   /\ outcome.err = "RuntimeError" /\ outcome.raised_in = "compile"
                   /\ compiled_schedule = <<>>
            /\ \A p \in 1..Len(r.program) :
                   r.program[p].instr = "wait" => r.program[p].a > 0

\* a sequencer whose operations end after total_play_time was compiled
C3_Witness ==
    \E x \in Runs :
        /\ RunOf(x).drained
        /\ RunOf(x).wait_time < 0
        /\ RunOf(x).err = "RuntimeError"

\* the waveforms of the plays of a sequencer, and their samples in total
WaveformsOf(x) ==
    {instrument_compilers[x[1]].sequencers[x[2]].pulses[i].wf :
        i \in {j \in 1..Len(instrument_compilers[x[1]].sequencers[x[2]].pulses) :
                  has_wf_func(instrument_compilers[x[1]].sequencers[x[2]].pulses[j])}}

\* C4: a sequencer whose waveforms have more samples in total than
\* MAX_SAMPLE_SIZE_WAVEFORMS makes its compilation raise RuntimeError and
\* return no program; the waveforms of every program returned have at most
\* that many samples.
C4_WaveformMemoryLimit ==
    /\ \A x \in Runs :
           total_size(WaveformsOf(x)) > MAX_SAMPLE_SIZE_WAVEFORMS =>
               /\ RunOf(x).err = "RuntimeError"
               /\ RunOf(x).program = <<>>
               /\ outcome.err = "RuntimeError"
               /\ compiled_schedule = <<>>
    /\ \A m \in DOMAIN compiled_schedule :
           \A i \in DOMAIN compiled_schedule[m].sequencers :
               total_size(compiled_schedule[m].sequencers[i].waveforms)
                   <= MAX_SAMPLE_SIZE_WAVEFORMS

\* a sequencer with more samples than the limit was compiled
C4_Witness ==
    \E x \in Runs :
        /\ total_size(WaveformsOf(x)) > MAX_SAMPLE_SIZE_WAVEFORMS
        /\ RunOf(x).err = "RuntimeError"

\* a sequencer with exactly as many samples as the limit got its program
C4_WitnessAtLimit ==
    \E m \in DOMAIN compiled_schedule :
        \E i \in DOMAIN compiled_schedule[m].sequencers :
            total_size(compiled_schedule[m].sequencers[i].waveforms)
                = MAX_SAMPLE_SIZE_WAVEFORMS

\* the operations queued on the modules, per port-clock
QueuedPulses == [m \in Instruments |-> instrument_compilers[m].pulses]

\* C10: a compilation that follows a successful compilation with the same
\* number of repetitions returns the same programs, waveforms and acquisition
\* declarations, raises nothing, and leaves the queued pulses as they were:
\* the second prepare() adds no update-parameter operation.
C10_CompileTwiceIsIdempotent ==
    [][(/\ outcome.call = "compile" /\ outcome.err = "none"
        /\ outcome'.call = "compile" /\ outcome'.reps = outcome.reps)
          => /\ outcome'.err = "none"
             /\ compiled_schedule' = compiled_schedule
             /\ runs' = runs
             /\ QueuedPulses' = QueuedPulses]_vars

\* a schedule with an offset, for which prepare() queued an update-parameter
\* operation, was compiled twice with success
C10_Witness ==
    /\ calls = 2
    /\ outcome.call = "compile" /\ outcome.err = "none"
    /\ \E m \in Instruments : \E pc \in PortClocks :
           /\ \E i \in 1..Len(instrument_compilers[m].pulses[pc]) :
                  is_parameter_update(instrument_compilers[m].pulses[pc][i])
           /\ \E k \in DOMAIN compiled_schedule[m].sequencers :
                  \E p \in 1..Len(compiled_schedule[m].sequencers[k].program) :
                      compiled_schedule[m].sequencers[k].program[p].instr = "set_awg_offs"

(* ------------- the compilation of a schedule of acquisitions ------------ *)

\* the acquisitions of one schedule have one protocol and one bin mode
AcqProtocols == {"SSBIntegrationComplex", "TriggerCount", "looped_periodic_acquisition"}

AllAcquisitions(m) ==
    instrument_compilers[m].acquisitions["pc0"]
        \o instrument_compilers[m].acquisitions["pc1"]

\* m0 is a QRM with port-clock pc0; the acquisitions follow one another on
\* the grid and total_play_time has room for all of them
InitAcq ==
    /\ total_play_time = Ns(GRID_TIME * (MaxOps + 1))
    /\ resources = [c \in Clocks |-> IF c = "c0" THEN Num(150) ELSE Num(170)]
    /\ instrument_compilers =
           [m \in Instruments |->
               IF m = "m0"
               THEN NewModule([instrument_type |-> "QRM",
                               ios |-> <<IoCfg("complex_output_0", "none", NoneFreq,
                                               TRUE, FALSE,
                                               <<Target("pc0", NoneFreq)>>)>>],
                              total_play_time)
               ELSE NewModule([instrument_type |-> "QCM_RF",
                               ios |-> <<IoCfg("complex_output_0", "none", Num(100),
                                               TRUE, FALSE,
                                               <<Target("pc1", NoneFreq)>>)>>],
                              total_play_time)]
    /\ lo_frequency = NoneFreq
    /\ compiled_schedule = <<>>
    /\ runs = [m \in Instruments |-> <<>>]
    /\ outcome = NoOutcome
    /\ calls = 0
    /\ direct = 0
    /\ gettable = NewGettable(TRUE)

AcqAddAcquisition ==
    \E ch \in 0..1 : \E idx \in 0..MaxIdx : \E bm \in BinModes : \E prot \in AcqProtocols :
        /\ \A i \in 1..Len(AllAcquisitions("m0")) :
               /\ AllAcquisitions("m0")[i].bin_mode = bm
               /\ AllAcquisitions("m0")[i].protocol = prot
        /\ add_acquisition("m0", "pc0",
                           AcqOp(Ns(GRID_TIME * TotalOps), ch, idx, bm, prot))

AcqCompile == \E r \in 1..MaxAcqReps : ContainerCompile(r)

NextAcq == AcqAddAcquisition \/ AcqCompile

SpecAcq == InitAcq /\ [][NextAcq]_vars

\* the acquisitions given to the sequencer of a run, its channels in the
\* order of their first use, and the indices of a channel
AcqsOf(x) == instrument_compilers[x[1]].sequencers[x[2]].acquisitions

ChannelsOf(x) == acq_channels(AcqsOf(x))

IndicesOf(x, ch) == acq_indices_of(AcqsOf(x), ch)

\* the indices of the channel are the duplicate-free set {0, ..., max index}
DenseIndices(x, ch) == Range(IndicesOf(x, ch)) = 0..(Len(IndicesOf(x, ch)) - 1)

\* the index checks of _generate_acq_declaration_dict
IndexChecks == {"lowest", "highest", "unique"}

\* the runs in which _generate_acq_declaration_dict was called
AcqRuns == {x \in Runs : AcqsOf(x) # <<>> /\ RunOf(x).acq.check # "metadata"}

\* more than one acquisition of the looped periodic protocol
LoopedSeveral(x) ==
    AcqsOf(x)[1].protocol = "looped_periodic_acquisition" /\ Len(AcqsOf(x)) > 1

\* C5 (as amended): the index error names the first channel, in the order of
\* first use, whose indices have a gap, a duplicate or a minimum other than
\* 0, and no index error is raised exactly when there is no such channel;
\* several acquisitions of the looped periodic protocol raise their own
\* ValueError once the first channel has passed the index checks.
C5_IndexErrorNamesFirstBadChannel ==
    \A x \in AcqRuns :
        LET r == RunOf(x)
            chans == ChannelsOf(x)
            bad == {i \in 1..Len(chans) : ~DenseIndices(x, chans[i])}
        IN  IF LoopedSeveral(x) /\ 1 \notin bad
            THEN r.err = "ValueError" /\ r.acq.check = "looped"
            ELSE IF bad # {}
            THEN /\ r.err = "ValueError"
                 /\ r.acq.check \in IndexChecks
                 /\ r.acq.channel = chans[Min(bad)]
                 /\ r.program = <<>>
            ELSE r.acq.check = "none" /\ r.acq.err = "none"

\* C5 (as stated): every channel whose indices have a gap, a duplicate or a
\* minimum other than 0 is named by a ValueError.
C5_EveryBadChannelIsNamed ==
    \A x \in AcqRuns :
        \A i \in 1..Len(ChannelsOf(x)) :
            ~DenseIndices(x, ChannelsOf(x)[i]) =>
                /\ RunOf(x).err = "ValueError"
                /\ RunOf(x).acq.check \in IndexChecks
                /\ RunOf(x).acq.channel = ChannelsOf(x)[i]

\* two channels have wrong indices and the error names the first of them,
\* which is not the channel of the lower number
C5_Witness ==
    \E x \in AcqRuns :
        /\ Len(ChannelsOf(x)) = 2
        /\ ChannelsOf(x)[1] > ChannelsOf(x)[2]
        /\ \A i \in 1..2 : ~DenseIndices(x, ChannelsOf(x)[i])
        /\ RunOf(x).acq.check \in IndexChecks
        /\ RunOf(x).acq.channel = ChannelsOf(x)[1]

\* the indices 0 and 2 of one channel (a gap) raised the index error
C5_WitnessGap ==
    \E x \in AcqRuns :
        /\ Range(IndicesOf(x, ChannelsOf(x)[1])) = {0, 2}
        /\ RunOf(x).acq.check = "highest"

\* the indices 1 and 0, in that order, passed the index checks
C5_WitnessDense ==
    \E x \in AcqRuns :
        /\ IndicesOf(x, ChannelsOf(x)[1]) = <<1, 0>>
        /\ RunOf(x).acq.check = "none" /\ RunOf(x).err = "none"

\* max(acq_indices) of a channel
MaxIndex(x, ch) == Max(Range(IndicesOf(x, ch)))

\* C6 (as amended): the num_bins declared for a channel is num_times for the
\* looped periodic protocol, else repetitions * (max index + 1) in append
\* mode, else MAX_NUMBER_OF_BINS for the TriggerCount protocol, else
\* max index + 1; a declaration is made for every channel.
C6_NumBins ==
    \A x \in AcqRuns :
        RunOf(x).acq.err = "none" =>
            /\ DOMAIN RunOf(x).acq.decl = Range(ChannelsOf(x))
            /\ \A ch \in Range(ChannelsOf(x)) :
                   RunOf(x).acq.decl[ch] =
                       IF AcqsOf(x)[1].protocol = "looped_periodic_acquisition"
                       THEN AcqsOf(x)[1].num_times
                       ELSE IF AcqsOf(x)[1].bin_mode = "append"
                       THEN outcome.reps * (MaxIndex(x, ch) + 1)
                       ELSE IF AcqsOf(x)[1].protocol = "TriggerCount"
                       THEN MAX_NUMBER_OF_BINS
                       ELSE MaxIndex(x, ch) + 1
            /\ RunOf(x).err = "none" =>
                   compiled_schedule[x[1]].sequencers[x[2] - 1].acquisitions
                       = RunOf(x).acq.decl

\* C6 (as stated): repetitions * (max index + 1) in append mode, and in
\* average mode max index + 1, MAX_NUMBER_OF_BINS for TriggerCount.
C6_NumBinsByBinModeOnly ==
    \A x \in AcqRuns :
        RunOf(x).acq.err = "none" =>
            \A ch \in Range(ChannelsOf(x)) :
                RunOf(x).acq.decl[ch] =
                    IF AcqsOf(x)[1].bin_mode = "append"
                    THEN outcome.reps * (MaxIndex(x, ch) + 1)
                    ELSE IF AcqsOf(x)[1].protocol = "TriggerCount"
                    THEN MAX_NUMBER_OF_BINS
                    ELSE MaxIndex(x, ch) + 1

\* append mode, 3 repetitions and the indices 0 and 1 of a channel: 6 bins
C6_Witness ==
    \E x \in AcqRuns :
        /\ outcome.reps = 3 /\ RunOf(x).err = "none"
        /\ AcqsOf(x)[1].bin_mode = "append"
        /\ AcqsOf(x)[1].protocol = "SSBIntegrationComplex"
        /\ IndicesOf(x, ChannelsOf(x)[1]) = <<0, 1>>
        /\ RunOf(x).acq.decl[ChannelsOf(x)[1]] = 6

\* average mode and the TriggerCount protocol: MAX_NUMBER_OF_BINS bins
C6_WitnessTriggerCount ==
    \E x \in AcqRuns :
        /\ RunOf(x).err = "none"
        /\ AcqsOf(x)[1].bin_mode = "average" /\ AcqsOf(x)[1].protocol = "TriggerCount"
        /\ RunOf(x).acq.decl[ChannelsOf(x)[1]] = MAX_NUMBER_OF_BINS

(* ------------- the frequencies of the sequencers of a module ------------ *)

\* the frequencies of the hardware configs and of the clocks
LoFreqs == {NoneFreq, Num(100), Num(120)}

IntermFreqs == {NoneFreq, Num(50), Num(70)}

ClockFreqs == {NoneFreq, Num(150), Num(170)}

\* m0 is a QCM whose output mixes with the external LO lo0, or a QCM-RF;
\* its output complex_output_0 has the port-clocks pc0 and pc1; lo_freq is
\* the frequency the hardware config gives the LO (of the instrument lo0, or
\* of the output of the RF module)
InitFreq ==
    /\ total_play_time = Ns(GRID_TIME * (MaxOps + 1))
    /\ resources \in [Clocks -> ClockFreqs]
    /\ \E type \in {"QCM", "QCM_RF"} : \E lo \in LoFreqs : \E mix_lo \in BOOLEAN :
       \E if0 \in IntermFreqs : \E if1 \in IntermFreqs :
           /\ type = "QCM_RF" => mix_lo
           /\ lo_frequency = IF type = "QCM" THEN lo ELSE NoneFreq
           /\ instrument_compilers =
                  [m \in Instruments |->
                      IF m = "m0"
                      THEN NewModule(
                               [instrument_type |-> type,
                                ios |-> <<IoCfg("complex_output_0",
                                                IF type = "QCM" THEN "lo0" ELSE "none",
                                                lo,
                                                mix_lo, FALSE,
                                                <<Target("pc0", if0),
                                                  Target("pc1", if1)>>)>>],
                               total_play_time)
                      ELSE NewModule([instrument_type |-> "QCM", ios |-> <<>>],
                                     total_play_time)]
    /\ compiled_schedule = <<>>
    /\ runs = [m \in Instruments |-> <<>>]
    /\ outcome = NoOutcome
    /\ calls = 0
    /\ direct = 0
    /\ gettable = NewGettable(TRUE)

\* the port-clocks of the two portclock_configs of InitFreq
FreqPortClocks == {"pc0", "pc1"}

FreqAddPulse ==
    \E pc \in FreqPortClocks :
        add_pulse("m0", pc, PulseOp("play", Ns(GRID_TIME * TotalOps), "w_short"))

FreqCompile == ContainerCompile(1)

NextFreq == FreqAddPulse \/ FreqCompile

SpecFreq == InitFreq /\ [][NextFreq]_vars

\* the I/O of the hardware config of m0, its LO frequency in the config and
\* after prepare()
Io0 == instrument_compilers["m0"].cfg.ios[1]

IsRF == instrument_compilers["m0"].cfg.instrument_type \in RFTypes

ConfigLo == Io0.lo_freq

PreparedLo == IF IsRF THEN instrument_compilers["m0"].settings.lo0_freq ELSE lo_frequency

\* the interm_freq of the hardware config for a port-clock
ConfigIf(pc) == IF pc = "pc0" THEN Io0.portclock_configs[1].interm_freq
                ELSE Io0.portclock_configs[2].interm_freq

\* the port-clocks of m0 with data whose clock is a resource, in the order
\* of their sequencers
Resolved ==
    {pc \in FreqPortClocks : /\ instrument_compilers["m0"].pulses[pc] # <<>>
                         /\ resources[ClockOf(pc)] # NoneFreq}

FirstResolved == IF "pc0" \in Resolved THEN "pc0" ELSE "pc1"

\* the port-clock of the first sequencer of m0
FirstWithData ==
    IF instrument_compilers["m0"].pulses["pc0"] # <<>> THEN "pc0" ELSE "pc1"

\* the sequencer that prepare() made for the port-clock
SeqOf(pc) ==
    instrument_compilers["m0"].sequencers[
        CHOOSE i \in 1..Len(instrument_compilers["m0"].sequencers) :
            instrument_compilers["m0"].sequencers[i].portclock = pc]

Known(f) == f # NoneFreq

\* f_clock = f_LO + f_IF
Agree(clock, lo, if_) ==
    Known(clock) /\ Known(lo) /\ Known(if_) /\ clock.v = lo.v + if_.v

PrepareFailed == outcome.raised_in = "prepare"

C7_WitnessDisagree ==
    /\ PrepareFailed /\ outcome.err = "ValueError" /\ Io0.mix_lo /\ Resolved # {}
    /\ Known(ConfigLo) /\ Known(ConfigIf(FirstResolved))

\* neither LO nor IF was given: ValueError
C7_WitnessNeither ==
    /\ PrepareFailed /\ outcome.err = "ValueError" /\ Io0.mix_lo /\ Resolved # {}
    /\ ~Known(ConfigLo) /\ ~Known(ConfigIf(FirstResolved))

(* ------------------- the setters of the frequencies --------------------- *)

\* the frequencies given to the setters
SetterFreqs == {NoneFreq, NaNFreq, Num(50), Num(70)}

SetterLoFreqs == {NoneFreq, NaNFreq, Num(100), Num(120)}

\* m0 is a QCM-RF whose output complex_output_0 has the port-clocks pc0 and
\* pc1; no clock is a resource, so that prepare() leaves the frequencies of
\* the hardware config in place
InitSetter ==
    /\ total_play_time = Ns(GRID_TIME * (MaxOps + 1))
    /\ resources = [c \in Clocks |-> NoneFreq]
    /\ \E lo \in {NoneFreq, NaNFreq, Num(100)} : \E if0 \in {NoneFreq, NaNFreq, Num(50)} :
           instrument_compilers =
               [m \in Instruments |->
                   IF m = "m0"
                   THEN NewModule(
                            [instrument_type |-> "QCM_RF",
                             ios |-> <<IoCfg("complex_output_0", "none", lo, TRUE, FALSE,
                                             <<Target("pc0", if0),
                                               Target("pc1", NoneFreq)>>)>>],
                            total_play_time)
                   ELSE NewModule([instrument_type |-> "QCM", ios |-> <<>>],
                                  total_play_time)]
    /\ lo_frequency = NoneFreq
    /\ compiled_schedule = <<>>
    /\ runs = [m \in Instruments |-> <<>>]
    /\ outcome = NoOutcome
    /\ calls = 0
    /\ direct = 0
    /\ gettable = NewGettable(TRUE)

\* a pulse for pc0, then pulses for pc1
SetterAddPulse ==
    add_pulse("m0", IF TotalOps = 0 THEN "pc0" ELSE "pc1",
              PulseOp("play", Ns(GRID_TIME * TotalOps), "w_short"))

SetterCompile == ContainerCompile(1)

SetterSetFrequency ==
    \E i \in 1..2 : \E freq \in SetterFreqs : SetFrequency("m0", i, freq)

SetterSetLoIntermFreqs ==
    \E i \in 1..2 : \E LO \in SetterLoFreqs : \E IF_ \in {NoneFreq, Num(50)} :
        SetLoIntermFreqs("m0", i, LO, IF_)

NextSetter ==
    SetterAddPulse \/ SetterCompile \/ SetterSetFrequency \/ SetterSetLoIntermFreqs

SpecSetter == InitSetter /\ [][NextSetter]_vars

\* the LO frequency setting lo0_freq of the RF module m0
Lo0Freq == instrument_compilers["m0"].settings.lo0_freq

\* sequencer i of m0
Seq0(i) == instrument_compilers["m0"].sequencers[i]

\* C8: a call of _set_lo_interm_freqs, for whichever sequencer of the RF
\* module, with an LO frequency other than the number that lo0_freq holds
\* raises ValueError and changes neither lo0_freq nor a sequencer; lo0_freq
\* is never changed from one number to another value.
C8_LoFrequencyIsWriteOnce ==
    [][outcome'.call = "set_lo_interm_freqs" =>
          /\ (Lo0Freq.k = "num" /\ outcome'.lo # NoneFreq /\ outcome'.lo # Lo0Freq)
                 => /\ outcome'.err = "ValueError"
                    /\ instrument_compilers' = instrument_compilers
          /\ Lo0Freq.k = "num" => Lo0Freq' = Lo0Freq
          /\ (Lo0Freq.k # "num" /\ outcome'.lo # NoneFreq) => Lo0Freq' = outcome'.lo]_vars

\* lo0_freq, not given by the hardware config, was set through sequencer 2;
\* the call for sequencer 1 with another LO frequency raised ValueError
C8_Witness ==
    /\ outcome.call = "set_lo_interm_freqs" /\ outcome.err = "ValueError"
    /\ outcome.seq = 1 /\ direct = 2
    /\ Io0.lo_freq = NoneFreq
    /\ Lo0Freq = Num(100) /\ outcome.lo = Num(120)
    /\ Len(instrument_compilers["m0"].sequencers) = 2
    /\ Seq0(2).modulation_freq = Num(50)

\* lo0_freq was NaN and the call set it to a number
C8_WitnessNaN ==
    /\ outcome.call = "set_lo_interm_freqs" /\ outcome.err = "none"
    /\ Io0.lo_freq = NaNFreq /\ direct = 1
    /\ Lo0Freq = Num(120)

\* C9: assigning to the frequency of a sequencer whose modulation_freq is a
\* number v1 a value that is not close to v1 raises ValueError and leaves
\* modulation_freq and nco_en as they were; assigning a value close to v1,
\* or assigning when modulation_freq is None or NaN, raises nothing and
\* stores the value.
C9_ModulationFrequencyIsWriteOnce ==
    [][(outcome'.call = "set_frequency" /\ outcome'.freq # NoneFreq) =>
          LET old == Seq0(outcome'.seq)
              new == instrument_compilers'["m0"].sequencers[outcome'.seq]
              v2 == outcome'.freq
          IN  IF old.modulation_freq.k = "num" /\ v2 # old.modulation_freq
              THEN /\ outcome'.err = "ValueError"
                   /\ new.modulation_freq = old.modulation_freq
                   /\ new.nco_en = old.nco_en
              ELSE /\ outcome'.err = "none"
                   /\ new.modulation_freq = v2
                   /\ new.nco_en]_vars

\* a sequencer that held 50 was assigned 70: ValueError, and it holds 50
C9_Witness ==
    /\ outcome.call = "set_frequency" /\ outcome.err = "ValueError"
    /\ outcome.freq = Num(70)
    /\ Seq0(outcome.seq).modulation_freq = Num(50)

\* a sequencer whose modulation_freq was NaN was assigned 70 and holds it
C9_WitnessUnset ==
    /\ outcome.call = "set_frequency" /\ outcome.err = "none"
    /\ outcome.seq = 1 /\ direct = 1
    /\ Io0.portclock_configs[1].interm_freq = NaNFreq
    /\ Seq0(1).modulation_freq = Num(70) /\ Seq0(1).nco_en


(* ------------------ the order of prepare() and compile() ---------------- *)

\* the compilers on which the method was called before call k of the trace
CalledBefore(trace, k, method) ==
    {trace[j].name : j \in {i \in 1..(k - 1) : trace[i].method = method}}

\* the calls of the method on the compiler in the trace
CallsOf(trace, method, name) ==
    {k \in 1..Len(trace) : trace[k] = Call(method, name)}

\* C11: CompilerContainer.compile calls prepare() on every instrument
\* compiler before it calls compile() on any of them: whenever compile() is
\* called on a compiler, prepare() has been called on all compilers of the
\* container; a compile that ends in prepare() has compiled nothing; and a
\* compile that raises nothing has made the calls prepare(m0), prepare(m1),
\* compile(m0), compile(m1) in this order.
C11_PrepareAllBeforeCompileAny ==
    outcome.call = "compile" =>
        /\ \A k \in 1..Len(outcome.trace) :
               outcome.trace[k].method = "compile" =>
                   CalledBefore(outcome.trace, k, "prepare") = Instruments
        /\ outcome.raised_in = "prepare" =>
               /\ \A k \in 1..Len(outcome.trace) : outcome.trace[k].method = "prepare"
               /\ \A m \in Instruments : runs[m] = <<>>
        /\ outcome.err = "none" =>
               outcome.trace =
                   [k \in 1..Len(InstrumentOrder) |-> Call("prepare", InstrumentOrder[k])]
                       \o [k \in 1..Len(InstrumentOrder) |->
                              Call("compile", InstrumentOrder[k])]

\* both modules have data and are compiled, after both were prepared
C11_Witness ==
    /\ outcome.call = "compile"
    /\ outcome.err = "none"
    /\ Len(outcome.trace) = 2 * Cardinality(Instruments)
    /\ \A m \in Instruments : Len(runs[m]) > 0 /\ runs[m][1].program # <<>>

(* ---------------------------- hardware_compile --------------------------- *)

\* the methods of the class CompilerContainer
CompilerContainerMethods ==
    {"compile", "add_instrument_compiler", "_add_from_str", "_add_from_type",
     "get_instrument_compiler", "from_mapping"}

\* CompilerContainer.from_mapping: a new compiler for every instrument of the
\* hardware config
from_mapping(hardware_cfg, tpt) ==
    [m \in Instruments |-> NewModule(hardware_cfg[m], tpt)]

\* helpers.assign_pulse_and_acq_info_to_devices: add_pulse or add_acquisition
\* for every operation of the schedule, on the compiler of its port-clock;
\* c is [mods, err]
RECURSIVE assign_pulse_and_acq_info_to_devices(_, _, _)
assign_pulse_and_acq_info_to_devices(c, schedule, i) ==
    IF i > Len(schedule) \/ c.err # "none" THEN c
    ELSE LET x == schedule[i]
         IN  IF ~is_acquisition(x.op)
             THEN assign_pulse_and_acq_info_to_devices(
                      [c EXCEPT !.mods[x.m].pulses[x.pc] = Append(@, x.op)],
                      schedule, i + 1)
             ELSE IF supports_acquisition(c.mods[x.m].cfg.instrument_type)
             THEN assign_pulse_and_acq_info_to_devices(
                      [c EXCEPT !.mods[x.m].acquisitions[x.pc] = Append(@, x.op)],
                      schedule, i + 1)
             ELSE [c EXCEPT !.err = "RuntimeError"]

\* the formats a hardware config is written in
HwFormats == {"MR328", "pre_MR328"}

\* helpers.migrate_hw_config_to_MR328_spec: the config in the format of MR328
migrate_hw_config_to_MR328_spec(hardware_cfg) == [hardware_cfg EXCEPT !.format = "MR328"]

\* hardware_compile(schedule, hardware_cfg): the test for a config of the old
\* format, whose ValueError is constructed and not raised, the container, the
\* assignment of the operations, container.prepare() and container.compile();
\* the attribute prepare is looked up on the CompilerContainer; the
\* compilers of from_mapping are made from the instrument entries, which a
\* config has in either format
hardware_compile(hardware_cfg, tpt, lo_freq, schedule_resources, schedule, repetitions) ==
    With(hardware_cfg # migrate_hw_config_to_MR328_spec(hardware_cfg),
         LAMBDA old_hw_config_spec :
    With(assign_pulse_and_acq_info_to_devices(
             [mods |-> from_mapping(hardware_cfg.instruments, tpt), err |-> "none"],
             schedule, 1), LAMBDA a :
        IF a.err # "none" \/ "prepare" \notin CompilerContainerMethods
        THEN [mods |-> a.mods, lo_frequency |-> lo_freq,
              err |-> IF a.err # "none" THEN a.err ELSE "AttributeError",
              why |-> NoWhy,
              raised_in |-> IF a.err # "none" THEN "assign" ELSE "hardware_compile",
              compiled_schedule |-> <<>>,
              runs |-> [m \in Instruments |-> <<>>], trace |-> <<>>]
        ELSE container_compile(a.mods, lo_freq, schedule_resources, repetitions)))

\* hardware_compile(schedule, hardware_cfg) on the hardware config of the
\* instrument compilers, written in one of the formats; every run makes its
\* own container, one run is taken
HardwareCompile(schedule, repetitions, format) ==
    /\ calls = 0
    /\ \E r \in {hardware_compile(
                      [format |-> format,
                       instruments |-> [m \in Instruments |-> instrument_compilers[m].cfg]],
                      total_play_time, lo_frequency, resources,
                      schedule, repetitions)} :
           /\ instrument_compilers' = r.mods
           /\ lo_frequency' = r.lo_frequency
           /\ compiled_schedule' = r.compiled_schedule
           /\ runs' = r.runs
           /\ outcome' = [NoOutcome EXCEPT !.call = "hardware_compile", !.err = r.err,
                                           !.raised_in = r.raised_in,
                                           !.reps = repetitions,
                                           !.why = r.why, !.trace = r.trace,
                                           !.hw_format = format]
    /\ calls' = calls + 1
    /\ UNCHANGED <<gettable, total_play_time, resources, direct>>

\* the operations of a schedule, with the module and the port-clock the
\* hardware config connects them to
ScheduleOps ==
    {[m |-> "m0", pc |-> "pc0", op |-> op] : op \in PulseInputs \cup AcqInputs}
        \cup {[m |-> "m1", pc |-> "pc1", op |-> PulseOp("play", 0, "w_short")],
              [m |-> "m1", pc |-> "pc1",
               op |-> AcqOp(0, 0, 0, "average", "SSBIntegrationComplex")]}

\* the schedules of at most MaxOps operations
Schedules ==
    UNION {[1..n -> ScheduleOps] : n \in 0..MaxOps}

BackendHardwareCompile ==
    \E schedule \in Schedules : \E r \in 1..MaxReps : \E format \in HwFormats :
        HardwareCompile(schedule, r, format)

NextBackend == BackendHardwareCompile

SpecBackend == Init /\ [][NextBackend]_vars

\* C12: during one run of hardware_compile (one in which the operations of
\* the schedule were assigned to the compilers), prepare() is called exactly
\* once on each instrument compiler, and before compile() is called on it.
C12_PreparedOnceBeforeCompile ==
    outcome.call = "hardware_compile" /\ outcome.raised_in # "assign" =>
        \A m \in Instruments :
            /\ Cardinality(CallsOf(outcome.trace, "prepare", m)) = 1
            /\ \A k \in CallsOf(outcome.trace, "compile", m) :
                   m \in CalledBefore(outcome.trace, k, "prepare")

(* ------------------ the instruments of the result map ------------------- *)

\* the module is not used: no sequencer of it has a pulse or an acquisition
NotUsed(m) ==
    \A i \in 1..Len(instrument_compilers[m].sequencers) :
        ~has_data(instrument_compilers[m].sequencers[i])

\* C13: an instrument that produces no program is not a key of the result
\* map of CompilerContainer.compile: a module that is not actually used (no
\* sequencer of it has any pulse or acquisition) returns None from
\* QbloxBaseModule.compile and is omitted.
C13_UnusedModuleIsOmitted ==
    outcome.call = "compile" /\ outcome.err = "none" =>
        \A m \in Instruments : NotUsed(m) => m \notin DOMAIN compiled_schedule

\* what the code does: every module is a key of the result map of a compile
\* that raises nothing, and the program of a module that is not used has no
\* sequencer
C13_EveryModuleIsAKey ==
    outcome.call = "compile" /\ outcome.err = "none" =>
        /\ DOMAIN compiled_schedule = Instruments
        /\ \A m \in Instruments :
               NotUsed(m) => DOMAIN compiled_schedule[m].sequencers = {}

(* ------------- acquisitions on a module without acquisition ------------- *)

\* the module cannot perform acquisitions
NoAcquisition(m) == ~supports_acquisition(instrument_compilers[m].cfg.instrument_type)

\* the step appends one pulse to the queue of one port-clock of the module
\* and leaves its other queues alone
AppendsOnePulse(m) ==
    \E pc \in PortClocks :
        /\ Len(instrument_compilers'[m].pulses[pc])
               = Len(instrument_compilers[m].pulses[pc]) + 1
        /\ SubSeq(instrument_compilers'[m].pulses[pc], 1,
                  Len(instrument_compilers[m].pulses[pc]))
               = instrument_compilers[m].pulses[pc]
        /\ \A other \in PortClocks \ {pc} :
               instrument_compilers'[m].pulses[other]
                   = instrument_compilers[m].pulses[other]
        /\ instrument_compilers'[m].acquisitions = instrument_compilers[m].acquisitions

\* C14: on an instrument compiler whose supports_acquisition is false every
\* add_acquisition call raises RuntimeError and queues nothing (the compiler
\* is as before), after any sequence of add_pulse and add_acquisition calls
\* its queued-acquisition mapping holds no acquisition, and an add_pulse
\* call still appends its pulse to the queue of the given port-clock.
C14_NoAcquisitionWithoutSupport ==
    [][\A m \in Instruments : NoAcquisition(m) =>
           /\ \A pc \in PortClocks : instrument_compilers'[m].acquisitions[pc] = <<>>
           /\ outcome'.call = "add_acquisition" /\ outcome'.target = m =>
                  /\ outcome'.err = "RuntimeError"
                  /\ instrument_compilers'[m] = instrument_compilers[m]
           /\ outcome'.call = "add_pulse" /\ outcome'.target = m =>
                  /\ outcome'.err = "none"
                  /\ AppendsOnePulse(m)]_vars

\* an acquisition was refused by the QCM-RF m1, which has a pulse queued
C14_Witness ==
    /\ NoAcquisition("m1")
    /\ outcome.call = "add_acquisition"
    /\ outcome.target = "m1"
    /\ outcome.err = "RuntimeError"
    /\ instrument_compilers["m1"].pulses["pc1"] # <<>>
    /\ instrument_compilers["m1"].acquisitions["pc1"] = <<>>

(* -------------- the sequencers of a module: hardware configs ------------ *)

\* ControlDeviceCompiler.add_pulse for a port-clock that has no pulse yet,
\* before or after a compile
add_first_pulse(m, pc, pulse_info) ==
    /\ calls < MaxCalls
    /\ instrument_compilers[m].pulses[pc] = <<>>
    /\ instrument_compilers' =
           [instrument_compilers EXCEPT ![m].pulses[pc] = Append(@, pulse_info)]
    /\ outcome' = [NoOutcome EXCEPT !.call = "add_pulse", !.target = m]
    /\ UNCHANGED <<gettable, total_play_time, resources, lo_frequency, compiled_schedule,
                   runs, calls, direct>>

\* an I/O entry with the port-clocks of the list
IoOf(io_name, pcs) ==
    IoCfg(io_name, "none", NoneFreq, TRUE, FALSE,
          [k \in 1..Len(pcs) |-> Target(pcs[k], NoneFreq)])

\* the names of the I/O entries: two outputs of the module and a name that
\* no module has
SeqIoNames == {"complex_output_0", "complex_output_1", "complex_output_7"}

\* the portclock_configs of an I/O entry: missing or empty, or some port-clocks
SeqPortClockLists == {<<>>, <<"pc0">>, <<"pc0", "pc1">>, <<"pc1", "pc2">>}

SeqIoEntries == {IoOf(n, pcs) : n \in SeqIoNames, pcs \in SeqPortClockLists}

\* the hardware configs of the module: one or two I/O entries of different
\* names, and the config that gives the module one port-clock more than it
\* has sequencers
SeqConfigs ==
    {<<a>> : a \in SeqIoEntries}
        \cup {<<x[1], x[2]>> : x \in {y \in SeqIoEntries \X SeqIoEntries :
                                            y[1].io_name # y[2].io_name}}
        \cup {<<IoOf("complex_output_0", SubSeq(PortClockOrder, 1, 4)),
                IoOf("complex_output_1",
                     SubSeq(PortClockOrder, 5, Len(PortClockOrder)))>>}

\* m0 is a QCM with one of the hardware configs, m1 a QCM without I/O; no
\* clock is a resource
InitSeq ==
    /\ total_play_time = Ns(GRID_TIME * MaxGrid)
    /\ resources = [c \in Clocks |-> NoneFreq]
    /\ \E ios \in SeqConfigs :
           instrument_compilers =
               [m \in Instruments |->
                   NewModule([instrument_type |-> "QCM",
                              ios |-> IF m = "m0" THEN ios ELSE <<>>],
                             total_play_time)]
    /\ lo_frequency = NoneFreq
    /\ compiled_schedule = <<>>
    /\ runs = [m \in Instruments |-> <<>>]
    /\ outcome = NoOutcome
    /\ calls = 0
    /\ direct = 0
    /\ gettable = NewGettable(TRUE)

\* the port-clocks of the hardware config of m0 get their pulse in the order
\* of PortClockOrder
SeqAddPulse ==
    \E k \in 1..Len(PortClockOrder) :
        /\ PortClockOrder[k] \in portclocks(instrument_compilers["m0"])
        /\ \A j \in 1..(k - 1) :
               PortClockOrder[j] \in portclocks(instrument_compilers["m0"]) =>
                   instrument_compilers["m0"].pulses[PortClockOrder[j]] # <<>>
        /\ add_first_pulse("m0", PortClockOrder[k], PulseOp("play", 0, "w_short"))

SeqCompile == ContainerCompile(1)

NextSeq == SeqAddPulse \/ SeqCompile

SpecSeq == InitSeq /\ [][NextSeq]_vars

(* ------------------ properties of _construct_sequencers ----------------- *)

\* the I/O entries of the hardware config of m0
Ios0 == instrument_compilers["m0"].cfg.ios

\* the port-clocks of I/O entry i
ListedIn(i) ==
    {Ios0[i].portclock_configs[j].portclock : j \in 1..Len(Ios0[i].portclock_configs)}

\* the places of the port-clock in the first n I/O entries
PlacesOf(pc, n) ==
    {x \in (1..n) \X (1..Len(PortClockOrder)) :
        /\ x[2] <= Len(Ios0[x[1]].portclock_configs)
        /\ Ios0[x[1]].portclock_configs[x[2]].portclock = pc}

\* the port-clocks of m0 with a pulse or an acquisition
WithData == portclocks_with_data(instrument_compilers["m0"])

\* the configured port-clocks that have data
Active == portclocks(instrument_compilers["m0"]) \cap WithData

\* the I/O entries with a name that is not valid or without portclock_configs
BadEntries ==
    {i \in 1..Len(Ios0) :
        Ios0[i].io_name \notin ValidIos \/ Ios0[i].portclock_configs = <<>>}

\* the port-clocks with data that the first n I/O entries list more than once
MultiplyAssigned(n) == {pc \in WithData : Cardinality(PlacesOf(pc, n)) > 1}

\* the port-clocks that two I/O entries list, with data or not
ListedTwice ==
    {pc \in PortClocks : \E i, j \in 1..Len(Ios0) : i # j /\ pc \in ListedIn(i) \cap ListedIn(j)}

\* the sequencers of m0 are numbered 0..n-1 and named seq<index>
NumberedInOrder(seqs) ==
    \A i \in 1..Len(seqs) :
        seqs[i].index = i - 1 /\ sequencer_name(seqs[i]) = <<"seq", i - 1>>

\* C15: prepare() constructs one sequencer per configured port-clock that has
\* a pulse or an acquisition, and raises ValueError when these would be more
\* than max_sequencers, leaving the sequencers mapping of the module as it
\* was; after a successful prepare() the module has at most max_sequencers
\* sequencers, with the indices 0..n-1 without repetition and the names
\* seq<index>. (On a hardware config whose I/O entries are well formed.)
C15_SequencerCeiling ==
    [][outcome'.call = "compile" /\ BadEntries = {} /\ MultiplyAssigned(Len(Ios0)) = {} =>
           IF Cardinality(Active) > NUMBER_OF_SEQUENCERS
           THEN /\ outcome'.err = "ValueError"
                /\ outcome'.raised_in = "prepare"
                /\ outcome'.why.kind = "max_sequencers"
                /\ instrument_compilers'["m0"].sequencers
                       = instrument_compilers["m0"].sequencers
           ELSE /\ outcome'.err = "none"
                /\ Len(instrument_compilers'["m0"].sequencers) = Cardinality(Active)
                /\ Len(instrument_compilers'["m0"].sequencers) <= NUMBER_OF_SEQUENCERS
                /\ NumberedInOrder(instrument_compilers'["m0"].sequencers)
                /\ {instrument_compilers'["m0"].sequencers[i].portclock :
                       i \in 1..Len(instrument_compilers'["m0"].sequencers)} = Active]_vars

\* C15 as the spec states it: one sequencer per configured port-clock, and a
\* ValueError when the configured port-clocks are more than max_sequencers
C15_OneSequencerPerConfiguredPortClock ==
    [][outcome'.call = "compile" /\ BadEntries = {} /\ ListedTwice = {} =>
           IF Cardinality(portclocks(instrument_compilers["m0"])) > NUMBER_OF_SEQUENCERS
           THEN /\ outcome'.err = "ValueError"
                /\ instrument_compilers'["m0"].sequencers
                       = instrument_compilers["m0"].sequencers
           ELSE /\ outcome'.err = "none"
                /\ Len(instrument_compilers'["m0"].sequencers)
                       = Cardinality(portclocks(instrument_compilers["m0"]))
                /\ NumberedInOrder(instrument_compilers'["m0"].sequencers)]_vars

\* the seventh port-clock got its pulse after a compile with six sequencers:
\* the next compile raises and the six sequencers are still there
C15_Witness ==
    /\ outcome.call = "compile"
    /\ outcome.err = "ValueError"
    /\ outcome.why.kind = "max_sequencers"
    /\ Cardinality(Active) = NUMBER_OF_SEQUENCERS + 1
    /\ Len(instrument_compilers["m0"].sequencers) = NUMBER_OF_SEQUENCERS

\* a compile with as many sequencers as the module has
C15_WitnessFull ==
    /\ outcome.call = "compile"
    /\ outcome.err = "none"
    /\ Len(instrument_compilers["m0"].sequencers) = NUMBER_OF_SEQUENCERS
    /\ Cardinality(portclocks(instrument_compilers["m0"])) = NUMBER_OF_SEQUENCERS + 1

\* the exception names the port-clock and two I/O entries that list it, the
\* second not before the first
NamesBothIos ==
    \E x \in PlacesOf(outcome.why.portclock, Len(Ios0)) :
        \E y \in PlacesOf(outcome.why.portclock, Len(Ios0)) :
            /\ x[1] < y[1] \/ (x[1] = y[1] /\ x[2] < y[2])
            /\ Ios0[x[1]].io_name = outcome.why.io_0
            /\ Ios0[y[1]].io_name = outcome.why.io_1

C16_WitnessNoData ==
    /\ outcome.call = "compile"
    /\ outcome.err = "none"
    /\ BadEntries = {}
    /\ "pc1" \in ListedTwice \ WithData
    /\ Len(instrument_compilers["m0"].sequencers) = 1

\* the first I/O entry that is not well formed
FirstBad == Min(BadEntries)

C17_WitnessKeyError ==
    /\ outcome.call = "compile"
    /\ outcome.err = "KeyError"
    /\ outcome.why.kind = "portclock_configs"
    /\ outcome.why.io_0 \in ValidIos
    /\ WithData # {}

(* ---------------- scope mode acquisitions of one module ----------------- *)

\* the port-clocks of the QRM of the scope mode schedules
ScopePortClocks == {"pc0", "pc1", "pc2"}

\* m0 is a QRM whose output complex_output_0 has three port-clocks
InitScope ==
    /\ total_play_time = Ns(GRID_TIME * (MaxOps + 1))
    /\ resources = [c \in Clocks |-> NoneFreq]
    /\ instrument_compilers =
           [m \in Instruments |->
               NewModule([instrument_type |-> "QRM",
                          ios |-> IF m = "m0"
                                  THEN <<IoOf("complex_output_0", <<"pc0", "pc1", "pc2">>)>>
                                  ELSE <<>>],
                         total_play_time)]
    /\ lo_frequency = NoneFreq
    /\ compiled_schedule = <<>>
    /\ runs = [m \in Instruments |-> <<>>]
    /\ outcome = NoOutcome
    /\ calls = 0
    /\ direct = 0
    /\ gettable = NewGettable(TRUE)

\* a Trace or an integration acquisition on one of the port-clocks, with the
\* next acquisition index of the port-clock
ScopeAddAcquisition ==
    \E pc \in ScopePortClocks : \E prot \in {"Trace", "SSBIntegrationComplex"} :
        add_acquisition("m0", pc,
                        AcqOp(Ns(GRID_TIME * TotalOps), 0,
                              Len(instrument_compilers["m0"].acquisitions[pc]),
                              "average", prot))

\* a pulse on one of the port-clocks
ScopeAddPulse ==
    \E pc \in ScopePortClocks :
        add_pulse("m0", pc, PulseOp("play", Ns(GRID_TIME * TotalOps), "w_short"))

ScopeCompile == \E r \in 1..MaxReps : ContainerCompile(r)

NextScope == ScopeAddAcquisition \/ ScopeAddPulse \/ ScopeCompile

SpecScope == InitScope /\ [][NextScope]_vars

\* the indices of the sequencers of m0 whose port-clock has a Trace
\* acquisition queued
ScopeSequencers ==
    {instrument_compilers["m0"].sequencers[i].index :
        i \in {k \in 1..Len(instrument_compilers["m0"].sequencers) :
                  \E a \in Range(instrument_compilers["m0"].acquisitions[
                                     instrument_compilers["m0"].sequencers[k].portclock]) :
                      a.protocol = "Trace"}}

\* C18: if, after data distribution, two different sequencers of the same
\* module each hold at least one acquisition with protocol "Trace",
\* prepare() raises the single-scope-acquisition error identifying both
\* sequencer indices (those of the first two such sequencers); when at most
\* one sequencer holds Trace acquisitions, any number of them, no such error
\* is raised.
C18_SingleScopeSequencer ==
    outcome.call = "compile" =>
        IF Cardinality(ScopeSequencers) >= 2
        THEN /\ outcome.err = "ValueError"
             /\ outcome.raised_in = "prepare"
             /\ outcome.why.kind = "single_scope"
             /\ outcome.why.sequencer_0 = Min(ScopeSequencers)
             /\ outcome.why.sequencer_1 = Min(ScopeSequencers \ {Min(ScopeSequencers)})
             /\ compiled_schedule = <<>>
        ELSE /\ outcome.why.kind # "single_scope"
             /\ outcome.raised_in # "prepare"

\* two Trace acquisitions on two port-clocks: the error names sequencers 0, 1
C18_Witness ==
    /\ outcome.call = "compile"
    /\ outcome.err = "ValueError"
    /\ outcome.why = [NoWhy EXCEPT !.kind = "single_scope",
                                   !.sequencer_0 = 0, !.sequencer_1 = 1]
    /\ Len(instrument_compilers["m0"].sequencers) = 2

\* two Trace acquisitions on one port-clock: the compile raises nothing
C18_WitnessOneSequencer ==
    /\ outcome.call = "compile"
    /\ outcome.err = "none"
    /\ \E pc \in ScopePortClocks :
           /\ Len(instrument_compilers["m0"].acquisitions[pc]) >= 2
           /\ \A a \in Range(instrument_compilers["m0"].acquisitions[pc]) :
                  a.protocol = "Trace"
    /\ "m0" \in DOMAIN compiled_schedule

(* ------------------ the attenuations of an RF module -------------------- *)

\* the input_att and output_att of a hardware config: a whole number of dB
\* (zero included) or a fractional one
AttValues == {Att(0), Att(4 * AttPerDb), Att(4 * AttPerDb + 1)}

\* an I/O entry with or without an attenuation key
AttEntries(io_name, pc, key, values) ==
    {IoOf(io_name, <<pc>>)} \cup {IoOf(io_name, <<pc>>) @@ (key :> v) : v \in values}

\* the hardware configs of the RF module: complex_output_0 with or without
\* input_att and output_att, and optionally complex_input_0 with or without
\* input_att and complex_output_1 with or without output_att
AttConfigs ==
    {<<o[1] @@ o[2]>> \o i \o p :
        o \in AttEntries("complex_output_0", "pc0", "input_att", AttValues)
                  \X AttEntries("complex_output_0", "pc0", "output_att",
                                {Att(2 * AttPerDb), Att(2 * AttPerDb + 1)}),
        i \in {<<>>} \cup {<<e>> : e \in AttEntries("complex_input_0", "pc1",
                                                     "input_att", AttValues)},
        p \in {<<>>} \cup {<<e>> : e \in AttEntries("complex_output_1", "pc2",
                                                     "output_att",
                                                     {Att(3 * AttPerDb)})}}

\* m0 is a QRM_RF with one of the hardware configs, m1 a QCM without I/O; no
\* clock is a resource
InitAtt ==
    /\ total_play_time = Ns(GRID_TIME * (MaxOps + 1))
    /\ resources = [c \in Clocks |-> NoneFreq]
    /\ \E ios \in AttConfigs :
           instrument_compilers =
               [m \in Instruments |->
                   IF m = "m0"
                   THEN NewModule([instrument_type |-> "QRM_RF", ios |-> ios],
                                  total_play_time)
                   ELSE NewModule([instrument_type |-> "QCM", ios |-> <<>>],
                                  total_play_time)]
    /\ lo_frequency = NoneFreq
    /\ compiled_schedule = <<>>
    /\ runs = [m \in Instruments |-> <<>>]
    /\ outcome = NoOutcome
    /\ calls = 0
    /\ direct = 0
    /\ gettable = NewGettable(TRUE)

\* a pulse on the port-clock of complex_output_0
AttAddPulse ==
    add_pulse("m0", "pc0", PulseOp("play", Ns(GRID_TIME * TotalOps), "w_short"))

AttCompile == ContainerCompile(1)

NextAtt == AttAddPulse \/ AttCompile

SpecAtt == InitAtt /\ [][NextAtt]_vars

\* the input_att of complex_input_0 and of complex_output_0 in the hardware
\* config of m0
InputAttOfInput ==
    AttGet(IoGet(instrument_compilers["m0"].cfg, "complex_input_0"), "input_att")

InputAttOfOutput ==
    AttGet(IoGet(instrument_compilers["m0"].cfg, "complex_output_0"), "input_att")

\* the input_att of the one I/O entry that specifies it
InputAttOfOne ==
    IF InputAttOfOutput.k # "None" THEN InputAttOfOutput ELSE InputAttOfInput

InputAttOnBoth == InputAttOfInput.k # "None" /\ InputAttOfOutput.k # "None"

InputAttOnOne == (InputAttOfInput.k # "None") # (InputAttOfOutput.k # "None")

InputAttOnNone == InputAttOfInput.k = "None" /\ InputAttOfOutput.k = "None"

\* the last call ran assign_attenuation of m0: prepare() passed, or raised in
\* assign_attenuation
AttenuationAssigned ==
    /\ outcome.call = "compile"
    /\ \/ outcome.raised_in # "prepare"
       \/ outcome.why.kind \in {"input_att", "in0_att", "out0_att", "out1_att"}

\* in0_att of the settings of m0 is the value, as an int
In0AttIs(x) ==
    /\ instrument_compilers["m0"].settings.in0_att.k = "int"
    /\ instrument_compilers["m0"].settings.in0_att.v * AttPerDb = x.v

\* C19 (amended): for an RF module, input_att on both complex_input_0 and
\* complex_output_0 makes assign_attenuation raise ValueError with in0_att not
\* set; input_att on exactly one of them sets in0_att to that value when the
\* value is a whole number, and raises ValueError with in0_att not set when it
\* is fractional; input_att on neither leaves in0_att None
C19_InputAttConflict ==
    AttenuationAssigned =>
        /\ InputAttOnBoth =>
               /\ outcome.err = "ValueError" /\ outcome.why.kind = "input_att"
               /\ instrument_compilers["m0"].settings.in0_att = NoAtt
        /\ InputAttOnOne /\ InputAttOfOne.v % AttPerDb = 0 =>
               /\ In0AttIs(InputAttOfOne)
               /\ outcome.why.kind \notin {"input_att", "in0_att"}
        /\ InputAttOnOne /\ InputAttOfOne.v % AttPerDb # 0 =>
               /\ outcome.err = "ValueError" /\ outcome.why.kind = "in0_att"
               /\ instrument_compilers["m0"].settings.in0_att = NoAtt
        /\ InputAttOnNone =>
               /\ instrument_compilers["m0"].settings.in0_att = NoAtt
               /\ outcome.why.kind \notin {"input_att", "in0_att"}

\* C19 as stated: input_att on both raises ValueError with in0_att not set,
\* input_att on exactly one of them sets in0_att to that value, whatever the
\* value, and input_att on neither leaves in0_att None
C19_InputAttOfExactlyOneIsSet ==
    AttenuationAssigned =>
        /\ InputAttOnBoth =>
               /\ outcome.err = "ValueError" /\ outcome.why.kind = "input_att"
               /\ instrument_compilers["m0"].settings.in0_att = NoAtt
        /\ InputAttOnOne => In0AttIs(InputAttOfOne)
        /\ InputAttOnNone => instrument_compilers["m0"].settings.in0_att = NoAtt

\* input_att on both I/O entries was refused
C19_Witness ==
    /\ AttenuationAssigned /\ InputAttOnBoth
    /\ outcome.err = "ValueError" /\ outcome.why.kind = "input_att"

\* input_att of zero on complex_input_0 alone was assigned, and the compile
\* passed
C19_WitnessOne ==
    /\ AttenuationAssigned /\ InputAttOnOne /\ outcome.err = "none"
    /\ InputAttOfInput = Att(0)
    /\ In0AttIs(Att(0))

\* a fractional input_att on complex_output_0 alone was refused
C19_WitnessFractional ==
    /\ AttenuationAssigned /\ InputAttOnOne
    /\ InputAttOfOutput.k # "None" /\ InputAttOfOutput.v % AttPerDb # 0
    /\ outcome.err = "ValueError" /\ outcome.why.kind = "in0_att"

\* no input_att at all: in0_att is None after a compile that passed
C19_WitnessNone ==
    /\ AttenuationAssigned /\ InputAttOnNone /\ outcome.err = "none"
    /\ instrument_compilers["m0"].settings.in0_att = NoAtt

(* --------------- compile() again, without a new prepare() --------------- *)

\* QbloxBaseModule.compile(repetitions), called on the module itself: the
\* sequencers that the last prepare() made are compiled as they are
ModuleCompile(m, repetitions) ==
    /\ calls > 0
    /\ direct < MaxDirect
    /\ \E r \in {module_compile(instrument_compilers[m], repetitions)} :
           /\ instrument_compilers' = [instrument_compilers EXCEPT ![m] = r.mod]
           /\ compiled_schedule' = IF r.err = "none"
                                   THEN (m :> r.program) @@ compiled_schedule
                                   ELSE compiled_schedule
           /\ runs' = [runs EXCEPT ![m] = r.runs]
           /\ outcome' = [NoOutcome EXCEPT !.call = "module_compile", !.err = r.err,
                                           !.raised_in = IF r.err = "none" THEN "none"
                                                         ELSE "compile",
                                           !.target = m, !.reps = repetitions]
    /\ direct' = direct + 1
    /\ UNCHANGED <<gettable, total_play_time, resources, lo_frequency, calls>>

RepeatCompile == \E m \in Instruments : \E r \in 1..MaxAcqReps : ModuleCompile(m, r)

NextRepeat == AcqAddAcquisition \/ AcqCompile \/ RepeatCompile

SpecRepeat == InitAcq /\ [][NextRepeat]_vars

\* the step is a compile(repetitions) of the module that passed, after a
\* prepare() and a compile of the module that passed
CompiledAgain(m, repetitions) ==
    /\ calls > 0 /\ outcome.err = "none"
    /\ outcome.call = "compile" \/ (outcome.call = "module_compile" /\ outcome.target = m)
    /\ outcome'.call = "module_compile" /\ outcome'.err = "none"
    /\ outcome'.target = m /\ outcome'.reps = repetitions

\* the module's part of the result of the step is what prepare() and one
\* compile(repetitions) give for the module, when these pass
SameAsCompiledAlone(m, repetitions) ==
    With(container_compile(instrument_compilers, lo_frequency, resources, repetitions),
         LAMBDA alone :
             alone.err = "none" => compiled_schedule'[m] = alone.compiled_schedule[m])

\* the sequencers of the module have an acquisition of the append bin mode
HasAppendMode(m) ==
    \E i \in 1..Len(instrument_compilers[m].sequencers) :
        \E k \in 1..Len(instrument_compilers[m].sequencers[i].acquisitions) :
            instrument_compilers[m].sequencers[i].acquisitions[k].bin_mode = "append"

\* C20: after one prepare(), compile(r2) after an earlier compile returns
\* the same program, waveforms and acquisition declarations, registers
\* included, as prepare() and compile(r2) alone
C20_CompileDependsOnlyOnRepetitions ==
    [][\A m \in Instruments : \A r2 \in 1..MaxAcqReps :
           CompiledAgain(m, r2) => SameAsCompiledAlone(m, r2)]_vars

\* the same, for the modules without an acquisition of the append bin mode
C20_RepeatsWithoutAppendMode ==
    [][\A m \in Instruments : \A r2 \in 1..MaxAcqReps :
           CompiledAgain(m, r2) /\ ~HasAppendMode(m) => SameAsCompiledAlone(m, r2)]_vars

\* a module with an append-mode acquisition was compiled again, with success
C20_CompiledAgainWithAppendMode ==
    /\ outcome.call = "module_compile" /\ outcome.err = "none"
    /\ HasAppendMode(outcome.target)
    /\ outcome.target \in DOMAIN compiled_schedule

(* ------------------- the gets of a ScheduleGettable -------------------- *)

\* a gettable with or without always_initialize, next to two modules without
\* I/O
InitGettable ==
    /\ total_play_time = Ns(GRID_TIME * (MaxOps + 1))
    /\ resources = [c \in Clocks |-> NoneFreq]
    /\ instrument_compilers =
           [m \in Instruments |->
               NewModule([instrument_type |-> "QCM", ios |-> <<>>], total_play_time)]
    /\ lo_frequency = NoneFreq
    /\ compiled_schedule = <<>>
    /\ runs = [m \in Instruments |-> <<>>]
    /\ outcome = NoOutcome
    /\ calls = 0
    /\ direct = 0
    /\ \E always_initialize \in BOOLEAN : gettable = NewGettable(always_initialize)

\* ScheduleGettable.get(), with the value of the parameter of the schedule
\* kwargs, what initialize() would do and whether data is acquired
GettableGet ==
    /\ gettable.gets < MaxGets
    /\ \E value \in 0..MaxParam : \E what \in InitializeOutcomes : \E acquired \in BOOLEAN :
           gettable' = gettable_get(gettable, value, what, acquired)
    /\ UNCHANGED <<total_play_time, resources, instrument_compilers, lo_frequency,
                   compiled_schedule, runs, outcome, calls, direct>>

NextGettable == GettableGet

SpecGettable == InitGettable /\ [][NextGettable]_vars

\* C21: is_initialized is False after construction and True after a get()
\* that passed; a get() runs initialize() exactly when always_initialize is
\* set or it finds is_initialized False, once per get(); without
\* always_initialize, no get() runs initialize() after one that initialized
\* with success, and is_initialized never goes back to False
C21_InitializeOnlyWhenNeeded ==
    [][/\ gettable.gets = 0 => ~gettable.is_initialized
       /\ gettable'.gets = gettable.gets + 1
       /\ gettable'.err = "none" => gettable'.is_initialized
       /\ gettable'.initialized =
              gettable.initialized
                  + (IF gettable.always_initialize \/ ~gettable.is_initialized
                     THEN 1 ELSE 0)
       /\ gettable.is_initialized => gettable'.is_initialized
       /\ ~gettable.always_initialize /\ gettable.is_initialized =>
              /\ gettable'.initialized = gettable.initialized
              /\ gettable'.evaluated_sched_kwargs = gettable.evaluated_sched_kwargs
              /\ gettable'.compiled_schedule = gettable.compiled_schedule
       /\ gettable.always_initialize => gettable'.initialized = gettable'.gets]_vars

\* without always_initialize: the first get() failed in initialize(), the
\* second one initialized and passed, the third one passed without
\* initialize()
C21_Witness ==
    /\ ~gettable.always_initialize /\ gettable.is_initialized
    /\ gettable.gets = 3 /\ gettable.initialized = 2 /\ gettable.err = "none"

\* with always_initialize: three gets, three initializations
C21_WitnessAlways ==
    /\ gettable.always_initialize /\ gettable.is_initialized
    /\ gettable.gets = 3 /\ gettable.initialized = 3 /\ gettable.err = "none"

(* -------------- the update-parameter operations of prepare() ------------ *)

\* the pulses and acquisitions queued on the port-clock of the module
QueuedOn(m, pc) ==
    instrument_compilers[m].pulses[pc] \o instrument_compilers[m].acquisitions[pc]

\* the operation is within half a grid time of a real-time I/O operation
\* queued on the port-clock
CoLocated(m, pc, op) ==
    \E k \in 1..Len(QueuedOn(m, pc)) :
        /\ is_real_time_io_operation(QueuedOn(m, pc)[k])
        /\ is_within_half_grid_time(QueuedOn(m, pc)[k].timing, op.timing)

\* the operation is within half a grid time of the end of the schedule
AtEndOfSchedule(m, op) ==
    is_within_half_grid_time(instrument_compilers[m].total_play_time, op.timing)

\* the step is a compile in which prepare() of the module ran
PreparedIn(m) ==
    /\ outcome'.call = "compile"
    /\ \E k \in 1..Len(outcome'.trace) : outcome'.trace[k] = Call("prepare", m)

\* the operations that the step added to the pulse queue of the port-clock
AddedTo(m, pc) ==
    SubSeq(instrument_compilers'[m].pulses[pc],
           Len(instrument_compilers[m].pulses[pc]) + 1,
           Len(instrument_compilers'[m].pulses[pc]))

\* the step keeps the pulse queue of the port-clock and adds to it nothing
\* but UpdateParameters operations, at most one per timing, each at the
\* rounded timing of an offset of the queue
AddsUpdateParameters(m, pc) ==
    /\ Len(instrument_compilers'[m].pulses[pc]) >= Len(instrument_compilers[m].pulses[pc])
    /\ SubSeq(instrument_compilers'[m].pulses[pc], 1,
              Len(instrument_compilers[m].pulses[pc]))
           = instrument_compilers[m].pulses[pc]
    /\ instrument_compilers'[m].acquisitions[pc] = instrument_compilers[m].acquisitions[pc]
    /\ \A i \in 1..Len(AddedTo(m, pc)) :
           /\ AddedTo(m, pc)[i] = UpdateParametersOp(AddedTo(m, pc)[i].timing)
           /\ \A j \in 1..Len(AddedTo(m, pc)) :
                  AddedTo(m, pc)[j].timing = AddedTo(m, pc)[i].timing => j = i
           /\ \E k \in 1..Len(instrument_compilers[m].pulses[pc]) :
                  /\ is_offset_instruction(instrument_compilers[m].pulses[pc][k])
                  /\ RoundNs(instrument_compilers[m].pulses[pc][k].timing)
                         = AddedTo(m, pc)[i].timing

\* an UpdateParameters operation was added at the rounded timing of the
\* operation
AddedAt(m, pc, op) ==
    \E i \in 1..Len(AddedTo(m, pc)) : AddedTo(m, pc)[i].timing = RoundNs(op.timing)

C22_WitnessCoLocated ==
    /\ outcome.call = "compile" /\ calls = 1
    /\ \E pc \in PortClocks : \E i, j \in 1..2 :
           /\ Len(instrument_compilers["m0"].pulses[pc]) = 2
           /\ is_offset_instruction(instrument_compilers["m0"].pulses[pc][i])
           /\ has_wf_func(instrument_compilers["m0"].pulses[pc][j])
           /\ instrument_compilers["m0"].pulses[pc][i].timing
                  = instrument_compilers["m0"].pulses[pc][j].timing
           /\ ~AtEndOfSchedule("m0", instrument_compilers["m0"].pulses[pc][i])

\* an offset at the end of the schedule got no UpdateParameters operation
C22_WitnessAtEnd ==
    /\ outcome.call = "compile" /\ calls = 1
    /\ \E pc \in PortClocks :
           /\ Len(instrument_compilers["m0"].pulses[pc]) = 1
           /\ is_offset_instruction(instrument_compilers["m0"].pulses[pc][1])
           /\ AtEndOfSchedule("m0", instrument_compilers["m0"].pulses[pc][1])

(* ------------- the programs of one sequencer, marker debug -------------- *)

\* the timings of the operations of a program: three grid points
ProgramTimes == {0, Ns(GRID_TIME), Ns(2 * GRID_TIME)}

\* the duration of an operation that lasts longer than its instructions
LongDuration == Ns(3 * GRID_TIME)

\* plays, offsets and NCO phase shifts at the timings, a play that lasts three
\* grid times, and an offset just after a grid point
ProgramPulses ==
    {PulseOp("play", t, "w_short") : t \in ProgramTimes}
        \cup {PulseOp(k, t, "none") : k \in {"offset", "phase_shift"}, t \in ProgramTimes}
        \cup {[PulseOp("play", 0, "w_short") EXCEPT !.duration = LongDuration],
              PulseOp("offset", Ns(GRID_TIME) + 1, "none")}

\* the acquisitions on channel ch that the sequencer of m0 already has
CountChannel(ch) ==
    Cardinality({i \in 1..Len(instrument_compilers["m0"].acquisitions["pc0"]) :
                    instrument_compilers["m0"].acquisitions["pc0"][i].acq_channel = ch})

\* m0 is a QRM with one port-clock, with or without marker debug mode; m1 is a
\* QCM without I/O
InitProgram ==
    /\ total_play_time = Ns(GRID_TIME * 5)
    /\ resources = [c \in Clocks |-> NoneFreq]
    /\ \E marker_debug \in BOOLEAN :
           instrument_compilers =
               [m \in Instruments |->
                   IF m = "m0"
                   THEN NewModule([instrument_type |-> "QRM",
                                   ios |-> <<IoCfg("complex_output_0", "none", NoneFreq,
                                                   TRUE, marker_debug,
                                                   <<Target("pc0", NoneFreq)>>)>>],
                                  total_play_time)
                   ELSE NewModule([instrument_type |-> "QCM", ios |-> <<>>],
                                  total_play_time)]
    /\ lo_frequency = NoneFreq
    /\ compiled_schedule = <<>>
    /\ runs = [m \in Instruments |-> <<>>]
    /\ outcome = NoOutcome
    /\ calls = 0
    /\ direct = 0
    /\ gettable = NewGettable(TRUE)

ProgramAddPulse == \E op \in ProgramPulses : add_pulse("m0", "pc0", op)

\* an acquisition at the first or the last timing, short or long, with the
\* next index of its channel
ProgramAddAcquisition ==
    \E t \in {0, Ns(2 * GRID_TIME)} : \E ch \in 0..1 : \E bm \in BinModes :
        \E d \in {Ns(GRID_TIME), LongDuration} :
            /\ d = LongDuration => t = 0 /\ ch = 0 /\ bm = "average"
            /\ add_acquisition("m0", "pc0",
                               [AcqOp(t, ch, CountChannel(ch), bm, "SSBIntegrationComplex")
                                   EXCEPT !.duration = d])

ProgramCompile == ContainerCompile(1)

NextProgram == ProgramAddPulse \/ ProgramAddAcquisition \/ ProgramCompile

SpecProgram == InitProgram /\ [][NextProgram]_vars

\* the time that the instructions of the loop take up to, and without,
\* position p of the program, after the update of the phase reset
TimeBefore(program, p) ==
    LET start == Min({s \in 1..Len(program) : program[s].instr = "label_start"})
        T[k \in 0..Len(program)] ==
            IF k = 0 \/ k < start THEN 0 ELSE T[k - 1] + InstrTime(program[k])
    IN  T[p - 1] - GRID_TIME

\* C23: in every generated program, the instructions of an operation are
\* inserted when the elapsed time of the program equals the operation's timing
\* on the grid, the instructions emitted in the loop before them (the waits
\* included) take exactly that time, and the elapsed time never decreases
\* along the queue
C23_WaitTillStartOfOperation ==
    \A x \in Runs :
        \A k \in 1..Len(RunOf(x).inserted) :
            LET e == RunOf(x).inserted[k]
                op == OpsOf(x)[e.op]
            IN  /\ to_grid_time(op.timing).err = "none"
                /\ e.elapsed_time = to_grid_time(op.timing).ns
                /\ k > 1 => RunOf(x).inserted[k - 1].elapsed_time <= e.elapsed_time
                /\ PositionsOf(RunOf(x).program, e.op) # {}
                /\ TimeBefore(RunOf(x).program,
                              Min(PositionsOf(RunOf(x).program, e.op))) = e.elapsed_time
                /\ \A j \in 1..(k - 1) :
                       \A p \in PositionsOf(RunOf(x).program, RunOf(x).inserted[j].op) :
                           p < Min(PositionsOf(RunOf(x).program, e.op))

\* a program in which a wait of one grid time advances from the end of a play
\* to an NCO phase shift
C23_Witness ==
    \E x \in Runs :
        /\ RunOf(x).err = "none" /\ Len(RunOf(x).inserted) = 2
        /\ OpsOf(x)[RunOf(x).inserted[1].op].kind = "play"
        /\ OpsOf(x)[RunOf(x).inserted[2].op].kind = "phase_shift"
        /\ RunOf(x).inserted[1].elapsed_time = 0
        /\ RunOf(x).inserted[2].elapsed_time = 2 * GRID_TIME
        /\ RunOf(x).program[Min(PositionsOf(RunOf(x).program, RunOf(x).inserted[2].op)) - 1]
               = Instr("wait", GRID_TIME, 0, 0)

(* ------------------ the registers of the append bin mode ---------------- *)

\* the position of the label of the loop in a program
LoopStart(program) ==
    Min({p \in 1..Len(program) : program[p].instr = "label_start"})

\* the positions of the instructions that set a register to 0
InitMoves(program) ==
    {p \in 1..Len(program) : program[p].instr = "move" /\ program[p].a = 0}

\* the acquisition channels of the append-mode acquisitions in a list
AppendChannels(ops) ==
    {ops[i].acq_channel : i \in {j \in 1..Len(ops) :
                                     is_acquisition(ops[j]) /\ ops[j].bin_mode = "append"}}

\* the register that the acquire instruction of operation id names
AcquireRegister(program, id) ==
    program[CHOOSE p \in PositionsOf(program, id) : program[p].instr = "acquire"].b

\* C24: in every generated program, each acquisition channel with an
\* append-mode acquisition has one register of its own, that is set to 0 by
\* exactly one instruction, before the loop; the acquire and the add of every
\* append-mode acquisition of the channel name that register; nothing else
\* is set to 0 or allocated, and an average-mode acquisition names its
\* acquisition index and has no add
C24_OneRegisterPerAppendChannel ==
    \A x \in Runs :
        LET program == RunOf(x).program
            ops == OpsOf(x)
        IN  (RunOf(x).err = "none" /\ program # <<>>) =>
                /\ \A p \in InitMoves(program) : p < LoopStart(program)
                /\ \A p \in 1..Len(program) :
                       program[p].instr = "move" => p < LoopStart(program)
                /\ Cardinality(InitMoves(program)) = Cardinality(AppendChannels(ops))
                /\ Cardinality(RunOf(x).registers) = Cardinality(AppendChannels(ops))
                /\ \A p, q \in InitMoves(program) : program[p].b = program[q].b => p = q
                /\ \A p \in InitMoves(program) : program[p].b \in RunOf(x).registers
                /\ \A ch \in AppendChannels(ops) :
                       \E p \in InitMoves(program) :
                           \A i \in 1..Len(ops) :
                               (/\ is_acquisition(ops[i]) /\ ops[i].bin_mode = "append"
                                /\ ops[i].acq_channel = ch) =>
                                   /\ AcquireRegister(program, i) = program[p].b
                                   /\ \E a \in PositionsOf(program, i) :
                                          program[a] = Instr("add", program[p].b, 1, i)
                /\ \A i, j \in 1..Len(ops) :
                       (/\ is_acquisition(ops[i]) /\ ops[i].bin_mode = "append"
                        /\ is_acquisition(ops[j]) /\ ops[j].bin_mode = "append"
                        /\ ops[i].acq_channel # ops[j].acq_channel) =>
                           AcquireRegister(program, i) # AcquireRegister(program, j)
                /\ \A i \in 1..Len(ops) :
                       (is_acquisition(ops[i]) /\ ops[i].bin_mode # "append") =>
                           /\ AcquireRegister(program, i) = ops[i].acq_index
                           /\ \A a \in PositionsOf(program, i) : program[a].instr # "add"

\* two append-mode acquisitions of one channel share the one register of the
\* program
C24_Witness ==
    \E x \in Runs :
        /\ RunOf(x).err = "none" /\ Len(OpsOf(x)) = 2
        /\ \A i \in 1..2 : is_acquisition(OpsOf(x)[i]) /\ OpsOf(x)[i].bin_mode = "append"
        /\ OpsOf(x)[1].acq_channel = OpsOf(x)[2].acq_channel
        /\ Cardinality(InitMoves(RunOf(x).program)) = 1
        /\ AcquireRegister(RunOf(x).program, 1) = AcquireRegister(RunOf(x).program, 2)

\* two append-mode acquisitions of two channels have a register each
C24_WitnessTwoChannels ==
    \E x \in Runs :
        /\ RunOf(x).err = "none" /\ Len(OpsOf(x)) = 2
        /\ \A i \in 1..2 : is_acquisition(OpsOf(x)[i]) /\ OpsOf(x)[i].bin_mode = "append"
        /\ OpsOf(x)[1].acq_channel # OpsOf(x)[2].acq_channel
        /\ Cardinality(InitMoves(RunOf(x).program)) = 2
        /\ AcquireRegister(RunOf(x).program, 1) # AcquireRegister(RunOf(x).program, 2)

(* --------------------------- marker debug mode -------------------------- *)

\* the sequencer of a run
SeqOfRun(x) == instrument_compilers[x[1]].sequencers[x[2]]

\* the instructions of operation id in the program are its own instructions
\* between a set_mrk of the operation's markers and a set_mrk of the default
\* marker
MarkersAround(x, id) ==
    LET program == RunOf(x).program
        P == PositionsOf(program, id)
    IN  /\ P # {}
        /\ program[Min(P)]
               = Instr("set_mrk", decide_markers(SeqOfRun(x), OpsOf(x)[id]), 0, id)
        /\ \E p \in P :
               /\ program[p] = Instr("set_mrk", SeqOfRun(x).default_marker, 0, id)
               /\ \E own \in P : Min(P) < own /\ own < p /\ program[own].instr # "set_mrk"
               /\ \A later \in P : later > p => program[later].instr = "upd_param"

\* C25: with marker debug mode, in every generated program every operation
\* of the queue has its instructions emitted, after a set_mrk of the bitmask
\* of the instrument type and operation class and before a set_mrk of the
\* default marker
C25_MarkersAroundEveryOperation ==
    \A x \in Runs :
        (/\ RunOf(x).err = "none" /\ RunOf(x).program # <<>>
         /\ SeqOfRun(x).marker_debug_mode_enable) =>
            \A id \in 1..Len(OpsOf(x)) : MarkersAround(x, id)

\* the same for the plays and the acquisitions alone
C25_MarkersAroundPlaysAndAcquisitions ==
    \A x \in Runs :
        (/\ RunOf(x).err = "none" /\ RunOf(x).program # <<>>
         /\ SeqOfRun(x).marker_debug_mode_enable) =>
            \A id \in 1..Len(OpsOf(x)) :
                (is_acquisition(OpsOf(x)[id]) \/ has_wf_func(OpsOf(x)[id])) =>
                    MarkersAround(x, id)

\* with marker debug mode, the operations that are neither plays nor
\* acquisitions have no instruction in the program
C25_OtherOperationsAreDropped ==
    \A x \in Runs :
        (/\ RunOf(x).err = "none" /\ RunOf(x).program # <<>>
         /\ SeqOfRun(x).marker_debug_mode_enable) =>
            \A id \in 1..Len(OpsOf(x)) :
                ~(is_acquisition(OpsOf(x)[id]) \/ has_wf_func(OpsOf(x)[id])) =>
                    PositionsOf(RunOf(x).program, id) = {}

\* a program with marker debug mode for a play and an acquisition
C25_DebugProgram ==
    \E x \in Runs :
        /\ RunOf(x).err = "none" /\ SeqOfRun(x).marker_debug_mode_enable
        /\ \E i, j \in 1..Len(OpsOf(x)) :
               has_wf_func(OpsOf(x)[i]) /\ is_acquisition(OpsOf(x)[j])

(* ------------------- operations that interrupt another ------------------ *)

\* pulse or acquisition: the class of a real-time I/O operation
SameClass(a, b) == is_acquisition(a) <=> is_acquisition(b)

\* the queue positions before k of the real-time I/O operations of the class
\* of the operation at k
PreviousOfClass(x, k) ==
    {j \in 1..(k - 1) :
        /\ is_real_time_io_operation(OpsOf(x)[RunOf(x).op_list[j]])
        /\ SameClass(OpsOf(x)[RunOf(x).op_list[j]], OpsOf(x)[RunOf(x).op_list[k]])}

\* the operation at queue position k starts before the end of the operation
\* at position j
StartsBeforeEndOf(x, k, j) ==
    OpsOf(x)[RunOf(x).op_list[k]].timing
        < OpsOf(x)[RunOf(x).op_list[j]].timing + OpsOf(x)[RunOf(x).op_list[j]].duration

\* the real-time I/O operation at queue position k starts before the end of
\* the last real-time I/O operation of its class before it
InterruptsLast(x, k) ==
    /\ is_real_time_io_operation(OpsOf(x)[RunOf(x).op_list[k]])
    /\ PreviousOfClass(x, k) # {}
    /\ StartsBeforeEndOf(x, k, Max(PreviousOfClass(x, k)))

\* the real-time I/O operation at queue position k starts before the end of
\* some real-time I/O operation of its class before it
InterruptsSome(x, k) ==
    /\ is_real_time_io_operation(OpsOf(x)[RunOf(x).op_list[k]])
    /\ \E j \in PreviousOfClass(x, k) : StartsBeforeEndOf(x, k, j)

\* the operations of which insert_qasm was called
InsertedOps(x) == {RunOf(x).inserted[k].op : k \in 1..Len(RunOf(x).inserted)}

C26_WitnessOtherClass ==
    \E x \in Runs :
        /\ RunOf(x).err = "none" /\ Len(RunOf(x).op_list) = 2
        /\ \E i, j \in 1..2 :
               /\ has_wf_func(OpsOf(x)[i]) /\ is_acquisition(OpsOf(x)[j])
               /\ OpsOf(x)[i].duration = LongDuration
               /\ OpsOf(x)[j].timing = Ns(2 * GRID_TIME)
        /\ RunOf(x).warned = {}

\* two plays at one timing: the second got the warning and the wait for its
\* start raised ValueError
C26_WitnessRaises ==
    \E x \in Runs :
        /\ RunOf(x).err = "ValueError" /\ RunOf(x).warned # {}

(* ---------------- SetClockFrequency and its old frequencies -------------- *)

\* SetClockFrequency(clock, clock_freq_new) at a timing
SetClockFrequencyOp(timing, clock_freq_new) ==
    [PulseOp("set_freq", timing, "none") EXCEPT !.clock_freq_new = clock_freq_new]

ClockPortClocks == {"pc1", "pc2"}

\* m0 is a QCM without external LO; its output complex_output_0 has the
\* port-clocks pc1 and pc2 of the clock c1, each with an interm_freq of the
\* hardware config or none; the clock c1 has a frequency, NaN or is no
\* resource
InitClock ==
    /\ total_play_time = Ns(GRID_TIME * 5)
    /\ \E f \in {NoneFreq, NaNFreq, Num(150)} :
           resources = [clock \in Clocks |-> IF clock = "c1" THEN f ELSE NoneFreq]
    /\ lo_frequency = NoneFreq
    /\ \E if1 \in {NoneFreq, Num(0), Num(50), Num(150)} : \E if2 \in {NoneFreq, Num(0)} :
           instrument_compilers =
               [m \in Instruments |->
                   IF m = "m0"
                   THEN NewModule(
                            [instrument_type |-> "QCM",
                             ios |-> <<IoCfg("complex_output_0", "none", NoneFreq,
                                             TRUE, FALSE,
                                             <<Target("pc1", if1),
                                               Target("pc2", if2)>>)>>],
                            total_play_time)
                   ELSE NewModule([instrument_type |-> "QCM", ios |-> <<>>],
                                  total_play_time)]
    /\ compiled_schedule = <<>>
    /\ runs = [m \in Instruments |-> <<>>]
    /\ outcome = NoOutcome
    /\ calls = 0
    /\ direct = 0
    /\ gettable = NewGettable(TRUE)

\* a play at the start on a port-clock
ClockAddPlay ==
    \E pc \in ClockPortClocks : add_pulse("m0", pc, PulseOp("play", 0, "w_short"))

\* a SetClockFrequency queued for a port-clock, one grid time after the start
ClockAddSetFrequency ==
    \E pc \in ClockPortClocks :
        add_pulse("m0", pc, SetClockFrequencyOp(Ns(GRID_TIME), Num(160)))

\* a SetClockFrequency queued for the None port and the clock c1, three grid
\* times after the start
ClockAddSetFrequencyOfClock ==
    add_clock_pulse("m0", "c1", SetClockFrequencyOp(Ns(3 * GRID_TIME), Num(160)))

ClockCompile == ContainerCompile(1)

\* compile() on the module m0 itself, after a compile of the container
ClockModuleCompile == ModuleCompile("m0", 1)

NextClock ==
    \/ ClockAddPlay \/ ClockAddSetFrequency \/ ClockAddSetFrequencyOfClock
    \/ ClockCompile \/ ClockModuleCompile

SpecClock == InitClock /\ [][NextClock]_vars

\* an old frequency that NcoSetClockFrequencyStrategy needs is missing
MissingOldFrequency(op) ==
    op.clock_freq_old.k \in {"None", "NaN"} \/ op.interm_freq_old.k = "None"

\* the SetClockFrequency pulses of a sequencer
SetFrequencyPulses(seq) ==
    {k \in 1..Len(seq.pulses) : seq.pulses[k].kind = "set_freq"}

\* every insert_qasm of a SetClockFrequency with a missing old frequency ends
\* the generation with RuntimeError, with no instruction of the operation and
\* the elapsed time of the call; with both old frequencies the operation is
\* set_freq of the shifted intermediate frequency and an upd_param of
\* NCO_SET_FREQ_WAIT, which is added to the elapsed time
C27_MissingOldFrequencyRaises ==
    \A x \in Runs : \A k \in 1..Len(RunOf(x).inserted) :
        LET id == RunOf(x).inserted[k].op
            op == OpsOf(x)[id]
            program == RunOf(x).program
            P == PositionsOf(program, id)
        IN  op.kind = "set_freq" =>
                IF MissingOldFrequency(op)
                THEN /\ RunOf(x).err = "RuntimeError"
                     /\ P = {}
                     /\ k = Len(RunOf(x).inserted)
                     /\ RunOf(x).elapsed_time = RunOf(x).inserted[k].elapsed_time
                ELSE /\ Cardinality(P) = 2
                     /\ program[Min(P)]
                            = Instr("set_freq",
                                    op.interm_freq_old.v + op.clock_freq_new.v
                                        - op.clock_freq_old.v, 0, id)
                     /\ program[Max(P)] = Instr("upd_param", NCO_SET_FREQ_WAIT, 0, id)
                     /\ k < Len(RunOf(x).inserted) =>
                            RunOf(x).inserted[k + 1].elapsed_time
                                >= RunOf(x).inserted[k].elapsed_time + NCO_SET_FREQ_WAIT

\* C27: after prepare() every SetClockFrequency pulse of a sequencer holds
\* the frequency of the sequencer's clock in the resources and the frequency
\* that was assigned to this sequencer, and a SetClockFrequency pulse with a
\* missing old frequency raises RuntimeError without an instruction and
\* without elapsed time
C27_BackfilledFromOwnSequencer ==
    /\ C27_MissingOldFrequencyRaises
    /\ \A m \in Instruments : \A i \in 1..Len(instrument_compilers[m].sequencers) :
           LET seq == instrument_compilers[m].sequencers[i]
           IN  \A k \in SetFrequencyPulses(seq) :
                   /\ seq.pulses[k].clock_freq_old = resources[ClockOf(seq.portclock)]
                   /\ seq.pulses[k].interm_freq_old = seq.modulation_freq

\* after prepare() the SetClockFrequency pulses queued for the port-clock of a
\* sequencer hold the frequency of that sequencer, those queued for the None
\* port hold in every sequencer the frequency of the last sequencer of the
\* clock
C27_BackfilledFromLastOfClock ==
    \A m \in Instruments : \A i \in 1..Len(instrument_compilers[m].sequencers) :
        LET mod == instrument_compilers[m]
            seq == mod.sequencers[i]
            own == Len(mod.pulses[seq.portclock])
            last == mod.sequencers[Max(SequencersOfClock(mod, ClockOf(seq.portclock)))]
        IN  \A k \in SetFrequencyPulses(seq) :
                /\ seq.pulses[k].clock_freq_old = resources[ClockOf(seq.portclock)]
                /\ seq.pulses[k].interm_freq_old
                       = IF k <= own THEN seq.modulation_freq ELSE last.modulation_freq

\* a SetClockFrequency of the None port in a sequencer pinned to 0, after one
\* with the frequency of the clock: the program shifts from the frequency of
\* the other sequencer
C27_SharedPulse ==
    \E x \in Runs :
        /\ RunOf(x).err = "none" /\ x[2] = 1
        /\ SeqOfRun(x).modulation_freq = Num(0)
        /\ \E k \in SetFrequencyPulses(SeqOfRun(x)) :
               /\ SeqOfRun(x).pulses[k].interm_freq_old = Num(150)
               /\ PositionsOf(RunOf(x).program, k) # {}
               /\ RunOf(x).program[Min(PositionsOf(RunOf(x).program, k))].a = 160

\* a SetClockFrequency on a clock that is no resource, and one on a clock
\* whose frequency is NaN, raised RuntimeError
C27_WitnessMissing ==
    \E x \in Runs : \E k \in 1..Len(RunOf(x).inserted) :
        /\ OpsOf(x)[RunOf(x).inserted[k].op].kind = "set_freq"
        /\ OpsOf(x)[RunOf(x).inserted[k].op].clock_freq_old = NoneFreq
        /\ RunOf(x).err = "RuntimeError"

C27_WitnessNaN ==
    \E x \in Runs : \E k \in 1..Len(RunOf(x).inserted) :
        /\ OpsOf(x)[RunOf(x).inserted[k].op].kind = "set_freq"
        /\ OpsOf(x)[RunOf(x).inserted[k].op].clock_freq_old = NaNFreq
        /\ RunOf(x).err = "RuntimeError"

\* the frequency was shifted from the sequencer's own frequency
C27_WitnessShifted ==
    \E x \in Runs : \E k \in SetFrequencyPulses(SeqOfRun(x)) :
        /\ RunOf(x).err = "none"
        /\ SeqOfRun(x).pulses[k].interm_freq_old = Num(150)
        /\ SeqOfRun(x).modulation_freq = Num(150)
        /\ PositionsOf(RunOf(x).program, k) # {}

(* ------------- baseband sequencers without an external LO ---------------- *)

\* the interm_freq of the hardware config for a port-clock of InitClock
ClockConfigIf(pc) == IF pc = "pc1" THEN Io0.portclock_configs[1].interm_freq
                     ELSE Io0.portclock_configs[2].interm_freq

\* the port-clocks of m0 that get a sequencer
ClockWithData == {pc \in ClockPortClocks : instrument_compilers["m0"].pulses[pc] # <<>>}

\* the config gives the port-clock a frequency that is neither 0 nor the
\* frequency of its clock
PinnedElsewhere(pc) ==
    /\ ClockConfigIf(pc).k = "num" /\ ClockConfigIf(pc) # Num(0)
    /\ ClockConfigIf(pc) # resources[ClockOf(pc)]

C28_WitnessSame ==
    /\ outcome.call = "compile" /\ ~PrepareFailed
    /\ "pc1" \in ClockWithData /\ ClockConfigIf("pc1") = Num(150)
    /\ SeqOf("pc1").modulation_freq = Num(150)

\* a configured frequency that is not the clock frequency: ValueError
C28_WitnessConflict ==
    /\ outcome.call = "compile" /\ PrepareFailed /\ outcome.err = "ValueError"
    /\ "pc1" \in ClockWithData /\ ClockConfigIf("pc1") = Num(50)
    /\ resources["c1"] = Num(150)

(* ----------------------- sequencers without data ------------------------ *)

\* the step is a compile of the container that got past prepare(), or a
\* compile of module m itself
CompileStepOf(m) ==
    \/ outcome'.call = "compile" /\ outcome'.raised_in # "prepare"
    \/ outcome'.call = "module_compile" /\ outcome'.target = m

\* the names of the sequencers of a module that have data
NamesWithData(sequencers) ==
    {sequencers[i].index : i \in {j \in 1..Len(sequencers) : has_data(sequencers[j])}}

\* C29: a compile of a sequencer that has neither pulses nor acquisitions
\* generates no program and leaves the sequencer as it was, and the
\* "sequencers" entry of the program that the compile of a module returns has
\* a key for exactly the sequencers with a pulse or an acquisition
C29_EmptySequencersAreSkipped ==
    [][\A m \in Instruments : CompileStepOf(m) =>
          LET sequencers == instrument_compilers'[m].sequencers
          IN  /\ \A i \in 1..Len(sequencers) :
                     ~has_data(sequencers[i]) =>
                         /\ i <= Len(runs'[m]) =>
                                /\ runs'[m][i].program = <<>>
                                /\ runs'[m][i].inserted = <<>>
                         /\ outcome'.call = "module_compile" =>
                                sequencers[i] = instrument_compilers[m].sequencers[i]
              /\ (outcome'.err = "none" /\ m \in DOMAIN compiled_schedule') =>
                     DOMAIN compiled_schedule'[m].sequencers = NamesWithData(sequencers)
      ]_vars

\* prepare() raised after the sequencers were constructed and before the
\* data was distributed; compile() on the module then skipped both
\* sequencers and returned a program without sequencers
C29_Witness ==
    /\ outcome.call = "module_compile" /\ outcome.err = "none"
    /\ Len(instrument_compilers["m0"].sequencers) = 2
    /\ NamesWithData(instrument_compilers["m0"].sequencers) = {}
    /\ "m0" \in DOMAIN compiled_schedule
    /\ DOMAIN compiled_schedule["m0"].sequencers = {}
    /\ Len(runs["m0"]) = 2

\* both sequencers have data and a program
C29_WitnessWithData ==
    /\ outcome.call = "module_compile" /\ outcome.err = "none"
    /\ "m0" \in DOMAIN compiled_schedule
    /\ Cardinality(DOMAIN compiled_schedule["m0"].sequencers) = 2

(* ------------------ a hardware config of the old format ------------------ *)

\* hardware_compile was called with a config written in the format before
\* MR328
OldFormatCompiled == outcome.call = "hardware_compile" /\ outcome.hw_format = "pre_MR328"

\* C30: hardware_compile on a config written in the format before MR328
\* raises ValueError and leaves the schedule without compiled instructions
C30_OldFormatRaisesValueError ==
    OldFormatCompiled => outcome.err = "ValueError" /\ compiled_schedule = <<>>

\* what the code does: hardware_compile on a config of the old format goes
\* on as on the migrated config, the first exception is one of the assignment
\* of the operations or the AttributeError of container.prepare(); no
\* compiled instructions are set on the schedule
C30_OldFormatIsNotRejected ==
    OldFormatCompiled =>
        /\ outcome.raised_in \in {"assign", "hardware_compile"}
        /\ outcome.raised_in = "assign" => outcome.err = "RuntimeError"
        /\ outcome.raised_in = "hardware_compile" => outcome.err = "AttributeError"
        /\ compiled_schedule = <<>>

\* the operations of a schedule were assigned to the compilers made for a
\* config of the old format
C30_OldFormatAssigned ==
    /\ OldFormatCompiled /\ outcome.err = "AttributeError"
    /\ \E m \in Instruments : \E pc \in PortClocks :
           instrument_compilers[m].pulses[pc] # <<>>

====
